---- MODULE Spec2Model ----
(***************************************************************************)
(* Model of the danote unknown-token resolution engine:                    *)
(*   backend/app/services/typo/{normalization,gating,candidates,ranking,   *)
(*   decision,cache,typo_engine}.py, services/token_classifier.py,         *)
(*   services/use_cases/wordbank.py and api/routes/{wordbank,tokens}.py.   *)
(*                                                                         *)
(* A string is a sequence of Unicode code points (naturals), so that       *)
(* str.lower, str.isupper, the regular expressions and the lexicographic   *)
(* order of Python are computed character by character as the code does.   *)
(* Real numbers (scores, confidences, thresholds) are fixed-point integers *)
(* with SCALE units per 1.0.                                               *)
(***************************************************************************)
EXTENDS Integers, Sequences, FiniteSets, TLC

\* Optional values: None is the empty sequence, Some(x) the one-element sequence
None == <<>>
Some(x) == <<x>>
The(opt) == opt[1]

\* Body applied to a value computed once: a local name for the value
Bind(value, Body(_)) == Body(value)
\* the elements of a sequence
Elements(seq) == {seq[k] : k \in 1..Len(seq)}

(***************************************************************************)
(* Characters                                                              *)
(***************************************************************************)
\* str.isspace for the characters of the model: space, tab, newline
IsSpace(c) == c \in {32, 9, 10}
\* a variant of str.isdigit that recognises no digit
IsDigitNever(c) == FALSE
\* str.isdigit
IsDigit(c) == c \in 48..57
\* uppercase letters A-Z and the Danish capitals (197 = AA-ring, 198 = AE, 216 = O-slash)
IsUpperChar(c) == c \in (65..90) \cup {197, 198, 216}
\* lowercase letters a-z and the Danish vowels (229 = a-ring, 230 = ae, 248 = o-slash)
IsLowerChar(c) == c \in (97..122) \cup {229, 230, 248}
\* str.isalpha
IsAlpha(c) == IsUpperChar(c) \/ IsLowerChar(c)
\* the regex class [\wæøåÆØÅ]: letters, digits and underscore
IsWordChar(c) == IsAlpha(c) \/ IsDigit(c) \/ c = 95
\* str.lower on one character
LowerChar(c) == IF IsUpperChar(c) THEN c + 32 ELSE c

(***************************************************************************)
(* Strings                                                                 *)
(***************************************************************************)
Lower(s) == [i \in 1..Len(s) |-> LowerChar(s[i])]

\* str.isupper(): at least one cased character and no lowercase one
IsUpperStr(s) ==
    /\ \E i \in 1..Len(s) : IsUpperChar(s[i])
    /\ \A i \in 1..Len(s) : ~IsLowerChar(s[i])

HasAlpha(s) == \E i \in 1..Len(s) : IsAlpha(s[i])

\* Python's order on str: lexicographic by code point
StrLess(a, b) ==
    \E k \in 0..Len(a) :
        /\ k <= Len(b)
        /\ \A i \in 1..k : a[i] = b[i]
        /\ \/ (k = Len(a) /\ k < Len(b))
           \/ (k < Len(a) /\ k < Len(b) /\ a[k + 1] < b[k + 1])

\* s[lo..hi] as a sequence (empty when lo > hi)
Slice(s, lo, hi) == IF lo > hi THEN <<>> ELSE SubSeq(s, lo, hi)

\* index of the first / last character of s satisfying "keep", 0 when none
FirstIdx(s, Keep(_)) ==
    IF \E i \in 1..Len(s) : Keep(s[i])
    THEN CHOOSE i \in 1..Len(s) : Keep(s[i]) /\ \A j \in 1..(i - 1) : ~Keep(s[j])
    ELSE 0
LastIdx(s, Keep(_)) ==
    IF \E i \in 1..Len(s) : Keep(s[i])
    THEN CHOOSE i \in 1..Len(s) : Keep(s[i]) /\ \A j \in (i + 1)..Len(s) : ~Keep(s[j])
    ELSE 0

NotSpace(c) == ~IsSpace(c)

\* str.strip()
Strip(s) ==
    IF FirstIdx(s, NotSpace) = 0 THEN <<>>
    ELSE Slice(s, FirstIdx(s, NotSpace), LastIdx(s, NotSpace))

\* " ".join(s.split()): whitespace runs collapsed to one space, ends trimmed
RECURSIVE CollapseFrom(_, _, _)
CollapseFrom(s, i, pendingSpace) ==
    IF i > Len(s) THEN <<>>
    ELSE IF IsSpace(s[i]) THEN CollapseFrom(s, i + 1, TRUE)
    ELSE (IF pendingSpace THEN <<32>> ELSE <<>>) \o <<s[i]>> \o CollapseFrom(s, i + 1, FALSE)
JoinSplit(s) ==
    LET t == Strip(s) IN CollapseFrom(t, 1, FALSE)

\* does pat occur in s at position i
MatchAt(s, i, pat) ==
    /\ i >= 1
    /\ i + Len(pat) - 1 <= Len(s)
    /\ \A k \in 1..Len(pat) : s[i + k - 1] = pat[k]

Contains(s, pat) == \E i \in 1..Len(s) : MatchAt(s, i, pat)

\* str.replace(src, tgt): non-overlapping occurrences, left to right
RECURSIVE ReplaceFrom(_, _, _, _)
ReplaceFrom(s, i, src, tgt) ==
    IF i > Len(s) THEN <<>>
    ELSE IF MatchAt(s, i, src) THEN tgt \o ReplaceFrom(s, i + Len(src), src, tgt)
    ELSE <<s[i]>> \o ReplaceFrom(s, i + 1, src, tgt)
Replace(s, src, tgt) == ReplaceFrom(s, 1, src, tgt)

\* sorted(set of strings) as a sequence
RECURSIVE SortStrings(_)
SortStrings(S) ==
    IF S = {} THEN <<>>
    ELSE LET m == CHOOSE x \in S : \A y \in S \ {x} : StrLess(x, y)
         IN <<m>> \o SortStrings(S \ {m})

(***************************************************************************)
(* typo/normalization.py                                                   *)
(***************************************************************************)
\* 8217 is the right single quotation mark, 96 the backtick, 39 the apostrophe
normalize_apostrophes(token) ==
    [i \in 1..Len(token) |-> IF token[i] \in {8217, 96} THEN 39 ELSE token[i]]

\* one EDGE_PUNCT_PATTERN.sub("", cleaned): the leading and the trailing run
\* of characters outside [\w] are removed
EdgePunctSub(cleaned) ==
    IF FirstIdx(cleaned, IsWordChar) = 0 THEN <<>>
    ELSE Slice(cleaned, FirstIdx(cleaned, IsWordChar), LastIdx(cleaned, IsWordChar))

\* a variant that removes one leading character outside [\w] and stops
EdgePunctOnce(cleaned) ==
    IF cleaned # <<>> /\ ~IsWordChar(cleaned[1]) THEN Tail(cleaned) ELSE cleaned

RECURSIVE EdgePunctLoop(_)
EdgePunctLoop(cleaned) ==
    LET updated == EdgePunctSub(cleaned)
    IN IF updated = cleaned THEN cleaned ELSE EdgePunctLoop(updated)

normalize_for_typo_compare(token) ==
    EdgePunctLoop(normalize_apostrophes(Lower(Strip(token))))

\* the three digraph / letter pairs: ae <-> 230, oe <-> 248, aa <-> 229
DigraphPairs == << <<(<<97, 101>>), (<<230>>)>>,
                   <<(<<111, 101>>), (<<248>>)>>,
                   <<(<<97, 97>>), (<<229>>)>> >>

AlternateSet(normalized) ==
    {normalized}
    \cup {Replace(normalized, DigraphPairs[k][1], DigraphPairs[k][2]) :
            k \in {j \in 1..3 : Contains(normalized, DigraphPairs[j][1])}}
    \cup {Replace(normalized, DigraphPairs[k][2], DigraphPairs[k][1]) :
            k \in {j \in 1..3 : Contains(normalized, DigraphPairs[j][2])}}

\* ComparisonForms(normalized, alternates)
comparison_forms(token) ==
    Bind(normalize_for_typo_compare(token), LAMBDA normalized :
        IF normalized = <<>>
        THEN [normalized |-> <<>>, alternates |-> <<>>]
        ELSE [normalized |-> normalized,
              alternates |-> SortStrings({v \in AlternateSet(normalized) : v # <<>>})])

(***************************************************************************)
(* services/token_classifier.py: normalize_token                           *)
(***************************************************************************)
normalize_token(token) == Lower(JoinSplit(token))

(***************************************************************************)
(* typo/gating.py                                                          *)
(***************************************************************************)
NoSpaceIn(s) == \A i \in 1..Len(s) : ~IsSpace(s[i])

\* EMAIL_RE = ^\S+@\S+\.\S+$ : an "@" (64) after at least one character and a
\* "." (46) at least two places later and before the last character
EMAIL_RE(s) ==
    /\ NoSpaceIn(s)
    /\ \E i \in 2..Len(s) : \E j \in (i + 2)..(Len(s) - 1) : s[i] = 64 /\ s[j] = 46

\* URL_RE = ^(https?://|www\.)\S+$ with re.IGNORECASE
UrlPrefixes == { <<104, 116, 116, 112, 58, 47, 47>>,
                 <<104, 116, 116, 112, 115, 58, 47, 47>>,
                 <<119, 119, 119, 46>> }
URL_RE(s) ==
    /\ NoSpaceIn(s)
    /\ \E p \in UrlPrefixes : MatchAt(Lower(s), 1, p) /\ Len(s) > Len(p)

\* PATH_RE = ^([A-Za-z]:\\|/).+ : a drive prefix or a slash (47), then one
\* more character that is not a newline
PATH_RE(s) ==
    \/ (Len(s) >= 4 /\ s[1] \in (65..90) \cup (97..122) /\ s[2] = 58 /\ s[3] = 92 /\ s[4] # 10)
    \/ (Len(s) >= 2 /\ s[1] = 47 /\ s[2] # 10)

min_len == 3

CountIf(s, P(_)) == Cardinality({i \in 1..Len(s) : P(s[i])})

GatingResult(should_run, reason_tags, proper_noun_bias) ==
    [should_run |-> should_run, reason_tags |-> reason_tags, proper_noun_bias |-> proper_noun_bias]

\* token[:1].isupper()
FirstIsUpper(token) == Len(token) >= 1 /\ IsUpperChar(token[1])

gate_proper_noun_bias(token, sentence_start) ==
    ~sentence_start /\ FirstIsUpper(token) /\ HasAlpha(token)

should_run_typo_check(token, normalized, sentence_start) ==
    IF normalized = <<>> THEN GatingResult(FALSE, <<"gating_skip_empty">>, FALSE)
    ELSE IF Len(normalized) < min_len THEN GatingResult(FALSE, <<"gating_skip_short">>, FALSE)
    ELSE IF EMAIL_RE(normalized) THEN GatingResult(FALSE, <<"gating_skip_email">>, FALSE)
    ELSE IF URL_RE(normalized) THEN GatingResult(FALSE, <<"gating_skip_url">>, FALSE)
    ELSE IF PATH_RE(normalized) THEN GatingResult(FALSE, <<"gating_skip_path">>, FALSE)
    ELSE IF IsUpperStr(token) /\ HasAlpha(token)
         THEN GatingResult(FALSE, <<"gating_skip_acronym">>, FALSE)
    \* digit_count / total > 0.3
    ELSE IF 10 * CountIf(normalized, IsDigit) > 3 * Len(normalized)
         THEN GatingResult(FALSE, <<"gating_skip_digit_ratio">>, FALSE)
    ELSE IF CountIf(normalized, IsAlpha) = 0
         THEN GatingResult(FALSE, <<"gating_skip_non_alpha">>, FALSE)
    ELSE IF gate_proper_noun_bias(token, sentence_start)
         THEN GatingResult(TRUE, <<"gating_ok", "proper_noun_bias">>, TRUE)
    ELSE GatingResult(TRUE, <<"gating_ok">>, FALSE)

(***************************************************************************)
(* Fixed-point arithmetic: SCALE units per 1.0                             *)
(***************************************************************************)
SCALE == 10000

Min2(a, b) == IF a <= b THEN a ELSE b
Max2(a, b) == IF a >= b THEN a ELSE b
Min3(a, b, c) == Min2(a, Min2(b, c))
Clamp(lo, hi, x) == Max2(lo, Min2(hi, x))
\* rounded quotient of naturals
DivRound(a, b) == (2 * a + b) \div (2 * b)

\* math.exp(-x / SCALE) for 0 <= x <= SCALE \div 2, by the Taylor series
ExpNegSmall(x) ==
    LET t1 == x
        t2 == (t1 * x) \div (2 * SCALE)
        t3 == (t2 * x) \div (3 * SCALE)
        t4 == (t3 * x) \div (4 * SCALE)
        t5 == (t4 * x) \div (5 * SCALE)
        t6 == (t5 * x) \div (6 * SCALE)
    IN SCALE - t1 + t2 - t3 + t4 - t5 + t6

\* math.exp(-x / SCALE) for x >= 0: halve the argument until the series applies
RECURSIVE ExpNeg(_)
ExpNeg(x) ==
    IF x <= SCALE \div 2 THEN ExpNegSmall(x)
    ELSE Bind(ExpNeg(x \div 2), LAMBDA h :
             (((h * h) \div SCALE) * ExpNegSmall(x - 2 * (x \div 2))) \div SCALE)

\* math.log(m / SCALE) for SCALE <= m < 2 * SCALE: 2 * atanh((m - 1) / (m + 1))
LnMantissa(m) ==
    LET z == ((m - SCALE) * SCALE) \div (m + SCALE)
        z2 == (z * z) \div SCALE
        z3 == (z * z2) \div SCALE
        z5 == (z3 * z2) \div SCALE
        z7 == (z5 * z2) \div SCALE
    IN 2 * (z + z3 \div 3 + z5 \div 5 + z7 \div 7)

\* math.log(n) for a natural n >= 1: n = m * 2^k, log(n) = log(m) + k * log(2)
RECURSIVE LnNatFrom(_, _)
LnNatFrom(num, den) ==
    IF num < 2 * den THEN LnMantissa((num * SCALE) \div den)
    ELSE 6931 + LnNatFrom(num, 2 * den)
LnNat(n) == LnNatFrom(n, 1)

(***************************************************************************)
(* typo/candidates.py: edit distances                                      *)
(***************************************************************************)
\* one row of _levenshtein: curr = [i]; curr.append(min(insert, delete, replace))
RECURSIVE LevRow(_, _, _, _, _)
LevRow(ca, b, prev, curr, j) ==
    IF j > Len(b) THEN curr
    ELSE LevRow(ca, b, prev,
                Append(curr, Min3(curr[j] + 1,
                                  prev[j + 1] + 1,
                                  prev[j] + (IF ca = b[j] THEN 0 ELSE 1))),
                j + 1)

RECURSIVE LevRows(_, _, _, _)
LevRows(a, b, prev, i) ==
    IF i > Len(a) THEN prev[Len(b) + 1]
    ELSE LevRows(a, b, LevRow(a[i], b, prev, <<i>>, 1), i + 1)

_levenshtein(a, b) ==
    IF a = b THEN 0
    ELSE IF a = <<>> THEN Len(b)
    ELSE IF b = <<>> THEN Len(a)
    ELSE LevRows(a, b, [j \in 1..(Len(b) + 1) |-> j - 1], 1)

\* The distance SymSpell.lookup reports: optimal string alignment
\* (Levenshtein plus adjacent transposition), symspellpy's default comparer.
RECURSIVE OsaRow(_, _, _, _, _, _, _)
OsaRow(a, i, b, prev2, prev, curr, j) ==
    IF j > Len(b) THEN curr
    ELSE LET base == Min3(curr[j] + 1,
                          prev[j + 1] + 1,
                          prev[j] + (IF a[i] = b[j] THEN 0 ELSE 1))
             val == IF i > 1 /\ j > 1 /\ a[i] = b[j - 1] /\ a[i - 1] = b[j]
                    THEN Min2(base, prev2[j - 1] + 1)
                    ELSE base
         IN OsaRow(a, i, b, prev2, prev, Append(curr, val), j + 1)

RECURSIVE OsaRows(_, _, _, _, _)
OsaRows(a, b, prev2, prev, i) ==
    IF i > Len(a) THEN prev[Len(b) + 1]
    ELSE OsaRows(a, b, prev, OsaRow(a, i, b, prev2, prev, <<i>>, 1), i + 1)

symspell_distance(a, b) ==
    LET row0 == [j \in 1..(Len(b) + 1) |-> j - 1]
    IN OsaRows(a, b, row0, row0, 1)

(***************************************************************************)
(* typo/ranking.py                                                         *)
(***************************************************************************)
\* length of the longest common subsequence, row by row
RECURSIVE LcsRow(_, _, _, _, _)
LcsRow(ca, b, prev, curr, j) ==
    IF j > Len(b) THEN curr
    ELSE LcsRow(ca, b, prev,
                Append(curr, IF ca = b[j] THEN prev[j] + 1
                             ELSE Max2(prev[j + 1], curr[j])),
                j + 1)
RECURSIVE LcsRows(_, _, _, _)
LcsRows(a, b, prev, i) ==
    IF i > Len(a) THEN prev[Len(b) + 1]
    ELSE LcsRows(a, b, LcsRow(a[i], b, prev, <<0>>, 1), i + 1)
LcsLen(a, b) == LcsRows(a, b, [j \in 1..(Len(b) + 1) |-> 0], 1)

\* rapidfuzz fuzz.ratio(a, b) / 100: the normalised indel similarity
FuzzRatio(a, b) ==
    IF Len(a) + Len(b) = 0 THEN SCALE
    ELSE DivRound(2 * LcsLen(a, b) * SCALE, Len(a) + Len(b))

\* difflib.SequenceMatcher.find_longest_match on a[alo..ahi], b[blo..bhi]:
\* the longest common block, the earliest in a, then the earliest in b
LongestMatch(a, alo, ahi, b, blo, bhi) ==
    LET Blocks == {blk \in (alo..ahi) \X (blo..bhi) \X (1..Min2(ahi - alo + 1, bhi - blo + 1)) :
                      /\ blk[1] + blk[3] - 1 <= ahi
                      /\ blk[2] + blk[3] - 1 <= bhi
                      /\ \A k \in 0..(blk[3] - 1) : a[blk[1] + k] = b[blk[2] + k]}
        Better(x, y) == \/ x[3] > y[3]
                        \/ (x[3] = y[3] /\ x[1] < y[1])
                        \/ (x[3] = y[3] /\ x[1] = y[1] /\ x[2] < y[2])
    IN IF Blocks = {} THEN <<alo, blo, 0>>
       ELSE CHOOSE x \in Blocks : \A y \in Blocks \ {x} : Better(x, y)

\* sum of the sizes of SequenceMatcher.get_matching_blocks()
RECURSIVE MatchingSize(_, _, _, _, _, _)
MatchingSize(a, alo, ahi, b, blo, bhi) ==
    IF alo > ahi \/ blo > bhi THEN 0
    ELSE LET m == LongestMatch(a, alo, ahi, b, blo, bhi)
         IN IF m[3] = 0 THEN 0
            ELSE m[3] + MatchingSize(a, alo, m[1] - 1, b, blo, m[2] - 1)
                      + MatchingSize(a, m[1] + m[3], ahi, b, m[2] + m[3], bhi)

\* SequenceMatcher(a=a, b=b).ratio()
SequenceMatcherRatio(a, b) ==
    IF Len(a) + Len(b) = 0 THEN SCALE
    ELSE DivRound(2 * MatchingSize(a, 1, Len(a), b, 1, Len(b)) * SCALE, Len(a) + Len(b))

_similarity(fuzzInstalled, a, b) ==
    IF fuzzInstalled THEN FuzzRatio(a, b) ELSE SequenceMatcherRatio(a, b)

\* math.log1p(max(frequency, 0.0)) / math.log1p(200.0), clipped to [0, 1]
_prior_score(frequency) ==
    Clamp(0, SCALE, DivRound(LnNat(1 + Max2(frequency, 0)) * SCALE, LnNat(201)))

\* _DANISH_SUBSTITUTION_COSTS, in hundredths
_substitution_cost(source, target) ==
    IF <<source, target>> \in {<<97, 229>>, <<229, 97>>, <<111, 248>>, <<248, 111>>} THEN 35
    ELSE IF <<source, target>> \in {<<101, 230>>, <<230, 101>>} THEN 45
    ELSE 100

\* one row dp[i][1..n] of _weighted_edit_cost, in hundredths; a transposition costs 0.6
RECURSIVE WeightedRow(_, _, _, _, _, _, _)
WeightedRow(a, i, b, prev2, prev, curr, j) ==
    IF j > Len(b) THEN curr
    ELSE LET replace_cost == IF a[i] = b[j] THEN 0 ELSE _substitution_cost(a[i], b[j])
             best == Min3(prev[j + 1] + 100, curr[j] + 100, prev[j] + replace_cost)
             val == IF i > 1 /\ j > 1 /\ a[i] = b[j - 1] /\ a[i - 1] = b[j]
                    THEN Min2(best, prev2[j - 1] + 60)
                    ELSE best
         IN WeightedRow(a, i, b, prev2, prev, Append(curr, val), j + 1)

RECURSIVE WeightedRows(_, _, _, _, _)
WeightedRows(a, b, prev2, prev, i) ==
    IF i > Len(a) THEN prev[Len(b) + 1]
    ELSE WeightedRows(a, b, prev, WeightedRow(a, i, b, prev2, prev, <<100 * i>>, 1), i + 1)

_weighted_edit_cost(observed, candidate) ==
    IF observed = candidate THEN 0
    ELSE LET a == Lower(observed)
             b == Lower(candidate)
             row0 == [j \in 1..(Len(b) + 1) |-> 100 * (j - 1)]
         IN WeightedRows(a, b, row0, row0, 1)

_error_likelihood(observed, candidate) ==
    LET cost == _weighted_edit_cost(observed, candidate)
        scale == Max2(Max2(Len(observed), Len(candidate)), 1)
    IN Clamp(0, SCALE, ExpNeg(DivRound(cost * (SCALE \div 100), scale)))

(***************************************************************************)
(* typo/decision.py                                                        *)
(***************************************************************************)
DecisionResult(status, confidence, reason_tags) ==
    [status |-> status, confidence |-> confidence, reason_tags |-> reason_tags]

\* softmax of the top two scores at temperature 0.35; 1.0 without a second
_top2_posterior(top_score, second_score) ==
    IF second_score = None THEN SCALE
    ELSE Bind(Max2(top_score, The(second_score)), LAMBDA hi :
         Bind(ExpNeg(DivRound((hi - top_score) * 100, 35)), LAMBDA a :
         Bind(ExpNeg(DivRound((hi - The(second_score)) * 100, 35)), LAMBDA b :
             IF a + b <= 0 THEN 0 ELSE DivRound(a * SCALE, a + b))))

_blended_confidence(raw_score, posterior) ==
    Clamp(0, SCALE, DivRound(78 * raw_score + 22 * posterior, 100))

\* base - (prior_score - 0.5) * 0.02, kept within [0.2, 0.98]
_calibrate_threshold(base, prior_score) ==
    Clamp(2000, 9800, DivRound(100 * base + SCALE - 2 * prior_score, 100))

\* decide_status, lines 43-50: the decision under proper-noun bias
BiasedDecision(top, confidence, uncertain_threshold) ==
    IF confidence >= _calibrate_threshold(uncertain_threshold, top.prior_score)
    THEN DecisionResult("uncertain", confidence,
                        <<"proper_noun_bias", "candidate_medium_confidence">>)
    ELSE DecisionResult("new", confidence, <<"proper_noun_bias">>)

\* decide_status, lines 52-78: the decision without the bias
UnbiasedDecision(top, confidence, margin, typo_threshold, uncertain_threshold, min_margin) ==
    LET calibrated_typo_threshold == _calibrate_threshold(typo_threshold, top.prior_score)
        calibrated_uncertain_threshold == _calibrate_threshold(uncertain_threshold, top.prior_score)
        near_typo_cutoff == calibrated_typo_threshold - (4 * SCALE) \div 100
    IN IF confidence >= calibrated_typo_threshold /\ margin >= min_margin
       THEN DecisionResult("typo_likely", confidence,
                           <<"candidate_high_confidence", "clear_margin", "posterior_calibrated">>)
       ELSE IF /\ top.distance <= 1
               /\ 100 * top.error_likelihood >= 82 * SCALE
               /\ confidence >= near_typo_cutoff
               /\ 4 * margin >= 3 * min_margin
       THEN DecisionResult("typo_likely", confidence,
                           <<"candidate_high_confidence", "distance_one_boost", "posterior_calibrated">>)
       ELSE IF confidence >= calibrated_uncertain_threshold
       THEN DecisionResult("uncertain", confidence,
                           <<"candidate_medium_confidence", "posterior_calibrated">>
                           \o (IF margin < min_margin THEN <<"small_margin">> ELSE <<>>))
       ELSE DecisionResult("new", confidence, <<"weak_candidate_evidence">>)

\* a variant of the branch of line 43 that never takes the proper-noun path
DecideIgnoringBias(top, confidence, margin, proper_noun_bias, typo_threshold, uncertain_threshold, min_margin) ==
    UnbiasedDecision(top, confidence, margin, typo_threshold, uncertain_threshold, min_margin)

\* decide_status, line 43: if proper_noun_bias
DecideFromEvidence(top, confidence, margin, proper_noun_bias, typo_threshold, uncertain_threshold, min_margin) ==
    IF proper_noun_bias
    THEN BiasedDecision(top, confidence, uncertain_threshold)
    ELSE UnbiasedDecision(top, confidence, margin, typo_threshold, uncertain_threshold, min_margin)

\* a variant of decide_status that answers "uncertain" whatever the evidence
DecideUncertain(ranked, proper_noun_bias, typo_threshold, uncertain_threshold, min_margin) ==
    DecisionResult("uncertain", 0, <<"low_confidence">>)
decide_status(ranked, proper_noun_bias, typo_threshold, uncertain_threshold, min_margin) ==
    IF ranked = <<>>
    THEN DecisionResult("new", 0, <<"weak_candidate_evidence">>)
    ELSE
    Bind(ranked[1], LAMBDA top :
    Bind(IF Len(ranked) > 1 THEN Some(ranked[2].score) ELSE None, LAMBDA second_score :
    Bind(_top2_posterior(top.score, second_score), LAMBDA posterior_top2 :
        DecideFromEvidence(top,
                           _blended_confidence(top.score, posterior_top2),
                           IF second_score = None THEN top.score
                                                  ELSE top.score - The(second_score),
                           proper_noun_bias, typo_threshold, uncertain_threshold, min_margin))))

(***************************************************************************)
(* Inputs of the model                                                     *)
(***************************************************************************)
\* words: "spiser", "spise", "spisr", "baer", "b(ae)r" with the letter 230
w_spiser == <<115, 112, 105, 115, 101, 114>>
w_spise == <<115, 112, 105, 115, 101>>
w_spisr == <<115, 112, 105, 115, 114>>
w_baer == <<98, 97, 101, 114>>
w_baer_lig == <<98, 230, 114>>
\* "kat", "spis", "spist"
w_kat == <<107, 97, 116>>
w_spis == <<115, 112, 105, 115>>
w_spist == <<115, 112, 105, 115, 116>>
\* raw tokens: "Spisr", "SPISR", "ab", "12", "a1b2c", "A1B2", "1@2.dk", " ",
\* "Spiser", "Spiser."
t_Spisr == <<83, 112, 105, 115, 114>>
t_SPISR == <<83, 80, 73, 83, 82>>
t_ab == <<97, 98>>
t_12 == <<49, 50>>
t_a1b2c == <<97, 49, 98, 50, 99>>
t_A1B2 == <<65, 49, 66, 50>>
t_mail == <<49, 64, 50, 46, 100, 107>>
t_blank == <<32>>
t_Spiser == <<83, 112, 105, 115, 101, 114>>
t_Spiser_dot == <<83, 112, 105, 115, 101, 114, 46>>

\* the static word list read by CandidateProvider._load
DictionaryWords == {w_spiser, w_baer_lig}
\* the lemmas of the store when the engine is constructed
SeedLexemes == {w_spiser}

\* (token, sentence_start) pairs handed to TypoEngine.classify_unknown
EngineCalls == {<<w_spisr, FALSE>>, <<t_Spisr, FALSE>>, <<t_Spisr, TRUE>>, <<t_SPISR, FALSE>>}
\* the calls that exercise the gate and the dictionary short-circuit
GateCalls == {<<t_ab, FALSE>>, <<t_12, FALSE>>, <<t_blank, TRUE>>, <<t_a1b2c, FALSE>>,
              <<t_A1B2, FALSE>>, <<t_mail, FALSE>>, <<w_baer, FALSE>>, <<t_Spisr, FALSE>>}
\* (token, scope, expires_at) of the add_ignored_token requests
IgnoreRequests == {<<t_Spisr, "global", None>>, <<t_Spisr, "global", Some(0)>>,
                   <<w_spisr, "session", Some(1)>>}
GateIgnoreRequests == {<<t_12, "global", None>>, <<t_a1b2c, "session", None>>,
                       <<t_blank, "global", None>>}
\* (surface_token, lemma_candidate) pairs of the add-word requests
AddWordRequests == {<<w_spise, None>>, <<t_Spiser_dot, Some(w_spiser)>>}
\* the ignore requests made next to the classifier's calls
ClassifierIgnoreRequests == {<<t_Spisr, "global", None>>}
\* raw tokens handed to LemmaAwareClassifier.classify
ClassifierTokens == {w_spisr, t_Spiser, t_Spiser_dot, t_blank}
\* token lists handed to LemmaAwareClassifier.classify_many
ClassifierBatches == {<<t_Spiser_dot, t_Spisr>>, <<t_Spisr, t_Spiser>>}
\* what the lemmatizer may answer: lemma_candidates_for_token and lemma_for_token
LemmaAnswers == {[candidates |-> <<>>, lemma |-> None],
                 [candidates |-> <<w_spise, w_spiser>>, lemma |-> Some(w_spise)],
                 [candidates |-> <<>>, lemma |-> Some(w_spise)]}

\* a store that holds several lemmas next to one another when the engine is
\* constructed
PipelineLexemes == {w_spiser, w_spise, w_spist, w_spis}
\* classify_unknown calls that end in each way: the gate skip ("ab"), the
\* dictionary skip ("baer"), the pipeline with candidates ("spisr", "Spisr")
\* and without any ("kat")
PipelineCalls == {<<w_spisr, FALSE>>, <<t_Spisr, FALSE>>, <<w_kat, FALSE>>, <<w_baer, FALSE>>,
                  <<t_ab, FALSE>>}
PipelineIgnoreRequests == {<<w_spisr, "global", None>>}

\* (token, max_candidates, max_distance) handed to CandidateProvider.suggest:
\* "spisr", the dictionary word "spiser", "baer" whose alternate form is the
\* dictionary word with the letter 230, and a blank token
SuggestRequests == {w_spisr, w_spiser, w_baer, t_blank} \X {1, 2, 20} \X {1, 2}
\* the words learned while the provider is observed
ProviderWordRequests == {<<w_spise, None>>, <<w_spist, None>>, <<w_spis, None>>}

AllRawStrings == {c[1] : c \in EngineCalls \cup GateCalls \cup PipelineCalls}
                    \cup {q[1] : q \in SuggestRequests}
                    \cup {r[1] : r \in ProviderWordRequests}
                    \cup {r[1] : r \in IgnoreRequests \cup GateIgnoreRequests}
                    \cup {r[1] : r \in AddWordRequests}
                    \cup ClassifierTokens
                    \cup UNION {{b[k] : k \in 1..Len(b)} : b \in ClassifierBatches}
\* every string the index can hold
Vocabulary == ({Lower(Strip(w)) : w \in DictionaryWords \cup SeedLexemes \cup PipelineLexemes}
                  \cup {normalize_token(IF r[2] # None /\ normalize_token(The(r[2])) # <<>>
                                        THEN The(r[2]) ELSE r[1]) : r \in AddWordRequests})
              \ {<<>>}
\* every string the index can be queried with
QueryForms == UNION {Elements(comparison_forms(x).alternates) : x \in AllRawStrings}

\* the pure string functions, tabulated once over the strings above
FormsTable == [x \in AllRawStrings \cup {normalize_for_typo_compare(y) : y \in AllRawStrings} |->
                  comparison_forms(x)] @@ <<>>
LevTable == [p \in QueryForms \X Vocabulary |-> _levenshtein(p[1], p[2])] @@ <<>>
OsaTable == [p \in QueryForms \X Vocabulary |-> symspell_distance(p[1], p[2])] @@ <<>>
SimTable == [f \in BOOLEAN |->
                [p \in QueryForms \X Vocabulary |-> _similarity(f, p[1], p[2])] @@ <<>>] @@ <<>>
ErrTable == [p \in QueryForms \X Vocabulary |-> _error_likelihood(p[1], p[2])] @@ <<>>

(***************************************************************************)
(* typo/ranking.py: rank_candidates                                        *)
(***************************************************************************)
InSeq(x, seq) == \E k \in 1..Len(seq) : seq[k] = x

\* a variant that reports every candidate one edit further than it is
CandidateOneFurther(value, distance, source_flags, frequency) ==
    [value |-> value, distance |-> distance + 1, source_flags |-> source_flags,
     frequency |-> frequency]
Candidate(value, distance, source_flags, frequency) ==
    [value |-> value, distance |-> distance, source_flags |-> source_flags, frequency |-> frequency]

\* RankedCandidate for one Candidate (the body of the loop of rank_candidates)
RankOne(fuzzInstalled, token, candidate, known_lemmas) ==
    Bind(SimTable[fuzzInstalled][<<token, candidate.value>>], LAMBDA similarity :
    Bind(Max2(0, SCALE - DivRound(candidate.distance * SCALE,
                                  Max2(Max2(Len(token), Len(candidate.value)), 1))),
         LAMBDA distance_score :
    Bind(_prior_score(candidate.frequency), LAMBDA prior_score :
    Bind(ErrTable[<<token, candidate.value>>], LAMBDA error_likelihood :
    Bind(IF InSeq("from_user_dict", candidate.source_flags) THEN 1500 ELSE 0,
         LAMBDA source_boost :
    Bind(IF candidate.value \in known_lemmas THEN 1000 ELSE 0, LAMBDA lemma_family_boost :
    Bind(DivRound(28 * distance_score + 22 * similarity + 20 * error_likelihood
                    + 10 * prior_score, 100)
         + source_boost + lemma_family_boost, LAMBDA total :
        [value |-> candidate.value,
         score |-> Clamp(0, SCALE, total),
         source_flags |-> candidate.source_flags,
         distance |-> candidate.distance,
         prior_score |-> prior_score,
         error_likelihood |-> error_likelihood])))))))

\* sort key (-score, distance, value)
RankedBefore(x, y) ==
    \/ x.score > y.score
    \/ (x.score = y.score /\ x.distance < y.distance)
    \/ (x.score = y.score /\ x.distance = y.distance /\ StrLess(x.value, y.value))

\* sorted(ranked, key=...), line 60: Python's sort is stable, so an item goes
\* behind every item already placed whose key is not greater than its own
\* a variant that does not sort: every item goes in front
InsertRankedInFront(placed, item) == <<item>> \o placed
InsertRanked(placed, item) ==
    Bind(Cardinality({k \in 1..Len(placed) : ~RankedBefore(item, placed[k])}), LAMBDA n :
        SubSeq(placed, 1, n) \o <<item>> \o SubSeq(placed, n + 1, Len(placed)))

RECURSIVE SortedRanked(_, _, _)
SortedRanked(ranked, k, placed) ==
    IF k > Len(ranked) THEN placed
    ELSE SortedRanked(ranked, k + 1, InsertRanked(placed, ranked[k]))

\* candidates is the list returned by suggest, ranked in its order
rank_candidates(fuzzInstalled, token, candidates, known_lemmas) ==
    SortedRanked([k \in 1..Len(candidates) |->
                     RankOne(fuzzInstalled, token, candidates[k], known_lemmas)], 1, <<>>)

(***************************************************************************)
(* typo/cache.py: LRUCache, a sequence of entries, least recently used     *)
(* first                                                                   *)
(***************************************************************************)
max_size == 4096

CacheKeys(store) == {store[k].key : k \in 1..Len(store)}
CacheIndexOf(store, key) == CHOOSE k \in 1..Len(store) : store[k].key = key
CacheWithout(store, key) ==
    SelectSeq(store, LAMBDA e : e.key # key)

\* a variant of LRUCache.get that always misses
LRUGetValueMiss(store, key) == None
\* LRUCache.get: the value, or None; a hit moves the entry to the end
LRUGetValue(store, key) ==
    IF key \notin CacheKeys(store) THEN None ELSE Some(store[CacheIndexOf(store, key)].value)
\* a variant of LRUCache.get that leaves the entry where it is
LRUGetStoreUnmoved(store, key) == store
LRUGetStore(store, key) ==
    IF key \notin CacheKeys(store) THEN store
    ELSE Append(CacheWithout(store, key), store[CacheIndexOf(store, key)])

RECURSIVE LRUEvict(_, _)
LRUEvict(store, bound) ==
    IF Len(store) > bound THEN LRUEvict(Tail(store), bound) ELSE store

\* LRUCache.set
LRUSet(store, key, value, bound) ==
    LRUEvict(Append(CacheWithout(store, key), [key |-> key, value |-> value]), bound)

\* LRUCache.clear
LRUClear == <<>>

(***************************************************************************)
(* typo/candidates.py: CandidateProvider                                   *)
(***************************************************************************)
max_dictionary_edit_distance == 2

\* SymSpell.create_dictionary_entry(key, count): a new entry, or the count
\* of an existing one raised by count.  index is Some(word -> count).
create_dictionary_entry(index, key, count) ==
    IF key \in DOMAIN The(index)
    THEN Some([The(index) EXCEPT ![key] = @ + count])
    ELSE Some([w \in DOMAIN The(index) \cup {key} |-> IF w = key THEN count ELSE The(index)[w]])

\* _load_user_lemmas: the lemmas of the lexemes table, lowercased
_load_user_lemmas(lexemeRows) == {Lower(l) : l \in lexemeRows}

\* the SymSpell dictionary built by _load: suggestion words at 10, then the
\* user lemmas at 100
LoadSymSpell(suggestionWords, lexemeRows) ==
    Some([w \in suggestionWords \cup _load_user_lemmas(lexemeRows) |->
            (IF w \in suggestionWords THEN 10 ELSE 0)
            + (IF w \in _load_user_lemmas(lexemeRows) THEN 100 ELSE 0)])

\* CandidateProvider.add_user_lexeme on the SymSpell dictionary (None without SymSpell)
provider_add_user_lexeme(index, lemma) ==
    LET normalized == Lower(Strip(lemma))
    IN IF normalized = <<>> THEN index
       ELSE IF index # None THEN create_dictionary_entry(index, normalized, 100)
       ELSE index

is_known_dictionary_word(generalWords, token) ==
    LET normalized == Lower(Strip(token))
    IN normalized # <<>> /\ normalized \in generalWords

\* sort key (distance, -frequency, value)
CandidateBefore(x, y) ==
    \/ x.distance < y.distance
    \/ (x.distance = y.distance /\ x.frequency > y.frequency)
    \/ (x.distance = y.distance /\ x.frequency = y.frequency /\ StrLess(x.value, y.value))

RECURSIVE SortCandidates(_)
SortCandidates(S) ==
    IF S = {} THEN <<>>
    ELSE LET m == CHOOSE x \in S : \A y \in S \ {x} : CandidateBefore(x, y)
         IN <<m>> \o SortCandidates(S \ {m})

Truncate(seq, n) == IF Len(seq) <= n THEN seq ELSE SubSeq(seq, 1, n)

\* SymSpell.lookup(phrase, Verbosity.CLOSEST, max_edit_distance): the exact
\* entry when there is one, else every entry at the smallest distance found
\* within the bound, ordered by distance and then by count
SymSpellLookup(index, phrase, maxEdit) ==
    IF phrase \in DOMAIN The(index)
    THEN {Candidate(phrase, 0, <<"from_symspell">>, The(index)[phrase])}
    ELSE Bind([w \in DOMAIN The(index) |-> OsaTable[<<phrase, w>>]], LAMBDA distance :
         Bind({w \in DOMAIN distance : distance[w] <= maxEdit}, LAMBDA within :
             {Candidate(w, distance[w], <<"from_symspell">>, The(index)[w]) :
                  w \in {v \in within : \A u \in within : distance[v] <= distance[u]}}))

_suggest_one(index, suggestionWords, lexemeRows, normalized, max_candidates, max_distance) ==
    IF normalized = <<>> THEN <<>>
    ELSE IF index # None
    THEN Truncate(SortCandidates(SymSpellLookup(index, normalized,
                                                Min2(max_distance, max_dictionary_edit_distance))),
                  max_candidates)
    ELSE Bind(_load_user_lemmas(lexemeRows), LAMBDA user_lemmas :
         Bind([w \in suggestionWords \cup user_lemmas |-> LevTable[<<normalized, w>>]],
              LAMBDA distance :
             Truncate(SortCandidates(
                          {Candidate(word, distance[word],
                                     IF word \in user_lemmas THEN <<"from_user_dict">>
                                                              ELSE <<"from_general_dict">>,
                                     IF word \in user_lemmas THEN 100 ELSE 10) :
                               word \in {w \in DOMAIN distance : distance[w] <= max_distance}}),
                      max_candidates)))

\* CandidateProvider.suggest: the candidates of every alternate form merged,
\* the lowest distance of each value kept (the first one seen among equals)
\* lines 134-136: a candidate replaces the one held for its value when its
\* distance is lower
\* a variant of the merge that keeps the first candidate seen for a value
MergeKeepingFirst(all, fresh) ==
    all \cup {d \in fresh : \A c \in all : c.value # d.value}
MergeCandidates(all, fresh) ==
    Bind({c \in all : \A d \in fresh : d.value = c.value => ~(d.distance < c.distance)},
         LAMBDA kept : kept \cup {d \in fresh : \A c \in kept : c.value # d.value})

RECURSIVE MergeForms(_, _, _, _, _, _, _, _)
MergeForms(index, suggestionWords, lexemeRows, alternates, k, max_candidates, max_distance, all) ==
    IF k > Len(alternates) THEN all
    ELSE MergeForms(index, suggestionWords, lexemeRows, alternates, k + 1,
                    max_candidates, max_distance,
                    MergeCandidates(all, Elements(_suggest_one(index, suggestionWords, lexemeRows,
                                                               alternates[k], max_candidates,
                                                               max_distance))))

suggest(index, suggestionWords, lexemeRows, token, max_candidates, max_distance) ==
    Truncate(SortCandidates(MergeForms(index, suggestionWords, lexemeRows,
                                       FormsTable[token].alternates, 1,
                                       max_candidates, max_distance, {})),
             max_candidates)

(***************************************************************************)
(* State                                                                   *)
(***************************************************************************)
VARIABLES
    lexemes,              \* table lexemes: the set of lemmas
    surface_forms,        \* table surface_forms: pairs <<form, lemma>>
    ignored_tokens,       \* table ignored_tokens: rows [token, scope, expires_at]
    token_events,         \* table token_events: the rows in insertion order
    typo_feedback,        \* table typo_feedback: the rows in insertion order
    now,                  \* CURRENT_TIMESTAMP of the store
    build,                \* which optional dependencies were importable
    general_words,        \* CandidateProvider._general_words
    suggestion_words,     \* CandidateProvider._suggestion_words
    symspell,             \* CandidateProvider._symspell: word -> count, or None
    cache,                \* TypoEngine.cache._store
    ignored_tokens_cache, \* TypoEngine._ignored_tokens_cache: a set, or None
    last,                 \* the last call and what it returned
    steps,                \* number of steps taken so far
    answered,             \* history: the classify_unknown answers given since the last
                          \* lexicon change, ignore addition or cache invalidation
    stale,                \* history: keys of the cache entries computed before the
                          \* last insertion into the lexicon
    ignore_log,           \* history: every [token, expires_at] add_ignored_token stored
    pc,                   \* concurrent requests: the position of each thread
    frame,                \* concurrent requests: the local variables of each reader
    computed_from,        \* history: for each cache key, the index its entry was
                          \* computed against
    lru,                  \* an LRUCache on its own: its _store
    touched,              \* history: the keys of lru in the order of their last touch
                          \* (a set, or a get that returned a value) since the last clear
    written,              \* history: for each key, the value last set in lru
    were_set,             \* history: every <<key, value>> a set of lru was called with
    user_added            \* history: the lemmas handed to CandidateProvider.add_user_lexeme

dbVars == <<lexemes, surface_forms, ignored_tokens, token_events, typo_feedback>>
providerVars == <<build, general_words, suggestion_words, symspell>>
historyVars == <<answered, stale, ignore_log>>
threadVars == <<pc, frame, computed_from>>
lruVars == <<lru, touched, written, were_set>>
vars == <<lexemes, surface_forms, ignored_tokens, token_events, typo_feedback, now,
          build, general_words, suggestion_words, symspell, cache,
          ignored_tokens_cache, last, steps, answered, stale, ignore_log,
          pc, frame, computed_from, lru, touched, written, were_set, user_added>>

\* bound of the model: the number of steps of a run
MaxSteps == 3

(***************************************************************************)
(* typo/typo_engine.py: TypoEngine                                         *)
(***************************************************************************)
\* DecisionThresholds defaults of _load_decision_thresholds
typo_threshold == 7800
uncertain_threshold == 5000
min_margin == 800

\* TypoResult without latency_ms, which is a wall-clock measurement
TypoResult(status, normalized, suggestions, confidence, reason_tags) ==
    [status |-> status, normalized |-> normalized, suggestions |-> suggestions,
     confidence |-> confidence, reason_tags |-> reason_tags]

TypoSuggestion(item) ==
    [value |-> item.value, score |-> item.score, source_flags |-> item.source_flags]

_max_distance_for_length(length, large_dictionary) ==
    IF large_dictionary THEN 1
    ELSE IF length <= 4 THEN 1
    ELSE IF length <= 8 THEN 2
    ELSE 2

\* any(is_known_dictionary_word(form) for form in forms.alternates)
InDictionary(generalWords, forms) ==
    \E k \in 1..Len(forms.alternates) : is_known_dictionary_word(generalWords, forms.alternates[k])

\* a variant of the override that keeps the status decide_status chose
ResolveKeepingStatus(generalWords, status, forms) == [status |-> status, tags |-> <<>>]
_resolve_status_by_dictionary_membership(generalWords, status, forms) ==
    IF InDictionary(generalWords, forms)
    THEN (IF status = "uncertain"
          THEN [status |-> "new", tags |-> <<"uncertain_resolved_dictionary_hit">>]
          ELSE [status |-> status, tags |-> <<>>])
    ELSE IF status \in {"new", "uncertain"}
    THEN [status |-> "typo_likely", tags |-> <<"dictionary_miss_forced_typo">>]
    ELSE [status |-> status, tags |-> <<>>]

\* a row of ignored_tokens passes WHERE expires_at IS NULL OR expires_at > CURRENT_TIMESTAMP
Unexpired(expires_at, clock) == expires_at = None \/ The(expires_at) > clock

_ignored_tokens_from_db(rows, clock) ==
    {r.token : r \in {q \in rows : Unexpired(q.expires_at, clock)}}

\* the set _is_ignored consults: loaded from the store on first use
IgnoredSetAfterLoad(inMemory, rows, clock) ==
    IF inMemory = None THEN _ignored_tokens_from_db(rows, clock) ELSE The(inMemory)

\* cache_key = f"{forms.normalized}|{int(sentence_start)}"
CacheKey(normalized, sentence_start) == <<normalized, sentence_start>>

\* _log_event: the row inserted into token_events
EventRow(token, result) ==
    [raw_token |-> token,
     normalized_token |-> result.normalized,
     final_status |-> result.status,
     top_suggestion |-> IF result.suggestions # <<>> THEN Some(result.suggestions[1].value) ELSE None,
     confidence |-> result.confidence]

\* the result of a skip: status "new", no suggestions, confidence 0.0
SkipResult(normalized, tags) == TypoResult("new", normalized, <<>>, 0, tags)

\* lines 135-169 of classify_unknown: suggest, rank, decide, resolve
Pipeline(index, suggestionWords, generalWords, lexemeRows, fuzzInstalled, forms, gating) ==
    Bind(_max_distance_for_length(Len(forms.normalized), Cardinality(generalWords) >= 500000),
         LAMBDA max_distance :
    Bind(suggest(index, suggestionWords, lexemeRows, forms.normalized, 20, max_distance),
         LAMBDA candidates :
    Bind(rank_candidates(fuzzInstalled, forms.normalized, candidates, lexemeRows),
         LAMBDA ranked :
    Bind(decide_status(ranked, gating.proper_noun_bias,
                       typo_threshold, uncertain_threshold, min_margin), LAMBDA decision :
    Bind(_resolve_status_by_dictionary_membership(generalWords, decision.status, forms),
         LAMBDA resolved :
    Bind(Truncate(ranked, 3), LAMBDA top3 :
        [decision |-> decision, candidates |-> candidates, ranked |-> ranked,
         result |-> TypoResult(resolved.status, forms.normalized,
                               [k \in 1..Len(top3) |-> TypoSuggestion(top3[k])],
                               decision.confidence,
                               gating.reason_tags \o decision.reason_tags \o resolved.tags)]))))))

\* (ComputeWithoutDictionarySkip is a variant that runs the pipeline on
\* dictionary words too)
\* lines 122-169 of classify_unknown: the result computed on a cache miss
\* (decision is the status decide_status chose, None on the dictionary skip;
\* run holds the locals candidates, ranked and decision of lines 139-152).
\* w is the engine and the store it reads, as the record World below.
ComputeWithoutDictionarySkip(w, forms, gating) ==
    Bind(Pipeline(w.symspell, w.suggestion_words, w.general_words, w.lexemes,
                  w.rapidfuzz, forms, gating),
         LAMBDA run : [decision |-> Some(run.decision.status),
                       run |-> Some([candidates |-> run.candidates, ranked |-> run.ranked,
                                     decision |-> run.decision]),
                       result |-> run.result])
ComputeResult(w, forms, gating) ==
    IF InDictionary(w.general_words, forms)
    THEN [decision |-> None, run |-> None,
          result |-> SkipResult(forms.normalized,
                                gating.reason_tags \o <<"gating_skip_dictionary_exact">>)]
    ELSE Bind(Pipeline(w.symspell, w.suggestion_words, w.general_words, w.lexemes,
                       w.rapidfuzz, forms, gating),
              LAMBDA run : [decision |-> Some(run.decision.status),
                            run |-> Some([candidates |-> run.candidates, ranked |-> run.ranked,
                                          decision |-> run.decision]),
                            result |-> run.result])

\* TypoEngine.classify_unknown on the engine and store w: the result returned
\* and every effect of the call
\* what one classify_unknown call returns and does: the result, whether it
\* came from the cache, the cache and the in-memory ignored set afterwards,
\* the token_events rows written, and the gate's and decide_status's verdicts
\* a variant in which no call writes an event
OutcomeUnlogged(token, gating, result, hit, newStore, newMemo, logged, decision, run) ==
    [result |-> result, hit |-> hit, cache |-> newStore, ignored_tokens_cache |-> newMemo,
     events |-> <<>>, gating |-> gating, decision |-> decision, run |-> run]
Outcome(token, gating, result, hit, newStore, newMemo, logged, decision, run) ==
    [result |-> result, hit |-> hit, cache |-> newStore, ignored_tokens_cache |-> newMemo,
     events |-> IF logged THEN <<EventRow(token, result)>> ELSE <<>>,
     gating |-> gating, decision |-> decision, run |-> run]

classify_unknown(w, token, sentence_start) ==
    Bind(FormsTable[token], LAMBDA forms :
    Bind(should_run_typo_check(token, forms.normalized, sentence_start), LAMBDA gating :
    Bind(IgnoredSetAfterLoad(w.ignored_tokens_cache, w.ignored_tokens, w.now),
         LAMBDA ignoredSet :
    Bind(CacheKey(forms.normalized, sentence_start), LAMBDA cache_key :
    Bind(LRUGetValue(w.cache, cache_key), LAMBDA cached :
        IF ~gating.should_run
        THEN Outcome(token, gating, SkipResult(forms.normalized, gating.reason_tags), FALSE,
                     w.cache, w.ignored_tokens_cache, TRUE, None, None)
        ELSE IF forms.normalized \in ignoredSet
        THEN Outcome(token, gating, SkipResult(forms.normalized, <<"gating_skip_ignored">>),
                     FALSE, w.cache, Some(ignoredSet), TRUE, None, None)
        ELSE IF cached # None
        THEN Outcome(token, gating, The(cached), TRUE, LRUGetStore(w.cache, cache_key),
                     Some(ignoredSet), FALSE, None, None)
        ELSE Bind(ComputeResult(w, forms, gating), LAMBDA computed :
                 Outcome(token, gating, computed.result, FALSE,
                         LRUSet(w.cache, cache_key, computed.result, max_size),
                         Some(ignoredSet), TRUE, computed.decision, computed.run)))))))

\* the engine and the part of the store it reads, as one value
World ==
    [cache |-> cache, ignored_tokens_cache |-> ignored_tokens_cache,
     ignored_tokens |-> ignored_tokens, now |-> now, symspell |-> symspell,
     lexemes |-> lexemes, general_words |-> general_words,
     suggestion_words |-> suggestion_words, rapidfuzz |-> build.rapidfuzz]

\* add_ignored_token, lines 185-194: INSERT ... ON CONFLICT(token, scope) DO
\* UPDATE SET expires_at
UpsertIgnored(rows, normalized, scope, expires_at) ==
    {r \in rows : ~(r.token = normalized /\ r.scope = scope)}
        \cup {[token |-> normalized, scope |-> scope, expires_at |-> expires_at]}

\* a variant of lines 195-196 that leaves the in-memory set alone
RememberIgnoredSkipped(ignoredMemo, normalized) == ignoredMemo
\* add_ignored_token, lines 195-196: the in-memory set, when already loaded
RememberIgnored(ignoredMemo, normalized) ==
    IF ignoredMemo # None THEN Some(The(ignoredMemo) \cup {normalized}) ELSE ignoredMemo

(***************************************************************************)
(* services/use_cases/wordbank.py and api/routes/wordbank.py: the rows an  *)
(* add-word request stores (the same statements in both)                   *)
(***************************************************************************)
add_word(lexemeRows, formRows, surface_token, lemma_candidate) ==
    Bind(normalize_token(surface_token), LAMBDA normalized_surface :
    Bind(normalize_token(IF lemma_candidate = None THEN <<>> ELSE The(lemma_candidate)),
         LAMBDA normalized_lemma :
    Bind(IF normalized_lemma # <<>> THEN normalized_lemma ELSE normalized_surface,
         LAMBDA stored_lemma :
        IF stored_lemma = <<>>
        THEN [rejected |-> TRUE, stored_lemma |-> stored_lemma, inserted |-> FALSE,
              lexemes |-> lexemeRows, surface_forms |-> formRows]
        ELSE [rejected |-> FALSE, stored_lemma |-> stored_lemma,
              inserted |-> \/ stored_lemma \notin lexemeRows
                           \/ /\ normalized_surface # <<>>
                              /\ <<normalized_surface, stored_lemma>> \notin formRows,
              lexemes |-> lexemeRows \cup {stored_lemma},
              surface_forms |-> IF normalized_surface # <<>>
                                THEN formRows \cup {<<normalized_surface, stored_lemma>>}
                                ELSE formRows])))

(***************************************************************************)
(* History kept beside a classify_unknown call                             *)
(***************************************************************************)
\* the engine as one value: what a classification reads and writes
EngineNow ==
    [world |-> World, token_events |-> token_events, answered |-> answered, stale |-> stale]

\* does the store hold an unexpired ignored_tokens row for this normalized form
LiveIgnoreRow(normalized) ==
    \E r \in ignored_tokens : r.token = normalized /\ Unexpired(r.expires_at, now)

\* one classify_unknown call on the engine eng: what the caller saw, and the
\* engine afterwards
Call(eng, token, sentence_start) ==
    Bind(classify_unknown(eng.world, token, sentence_start), LAMBDA out :
    Bind(out.result.normalized, LAMBDA normalized :
    Bind(CacheKey(normalized, sentence_start), LAMBDA key :
        [seen |-> [token |-> token, sentence_start |-> sentence_start, at |-> now,
                   result |-> out.result, hit |-> out.hit,
                   stale_hit |-> out.hit /\ key \in eng.stale,
                   gating |-> out.gating, decision |-> out.decision, run |-> out.run,
                   logged |-> out.events # <<>>,
                   live_row |-> LiveIgnoreRow(normalized)],
         eng |-> [world |-> [eng.world EXCEPT !.cache = out.cache,
                                              !.ignored_tokens_cache = out.ignored_tokens_cache],
                  token_events |-> eng.token_events \o out.events,
                  answered |-> eng.answered \cup
                                 {[normalized |-> normalized, sentence_start |-> sentence_start,
                                   token |-> token, passed |-> out.gating.should_run,
                                   result |-> out.result]},
                  stale |-> (IF ~out.hit /\ out.cache # eng.world.cache
                             THEN eng.stale \ {key} ELSE eng.stale)
                                \cap CacheKeys(out.cache)]])))

\* the engine variables take the values of eng
EngineBecomes(eng) ==
    /\ cache' = eng.world.cache
    /\ ignored_tokens_cache' = eng.world.ignored_tokens_cache
    /\ token_events' = eng.token_events
    /\ answered' = eng.answered
    /\ stale' = eng.stale

(***************************************************************************)
(* Initial state: the store seeded, the engine constructed                 *)
(***************************************************************************)
NoCall == [op |-> "none"]
Threads == {"reader1", "reader2", "writer"}
Readers == {"reader1", "reader2"}

\* the state after construction over a store that holds the lemmas seed;
\* start is what stands in last before the first step
InitStore(seed, start) ==
    /\ lexemes = seed
    /\ surface_forms = {<<l, l>> : l \in lexemes}
    /\ ignored_tokens = {}
    /\ token_events = <<>>
    /\ typo_feedback = <<>>
    /\ now = 0
    /\ build \in [symspell : BOOLEAN, rapidfuzz : BOOLEAN]
    /\ general_words = {Lower(Strip(w)) : w \in DictionaryWords}
    /\ suggestion_words = general_words
    /\ symspell = IF build.symspell THEN LoadSymSpell(suggestion_words, lexemes) ELSE None
    /\ cache = <<>>
    /\ ignored_tokens_cache = None
    /\ last = start
    /\ steps = 0
    /\ answered = {}
    /\ stale = {}
    /\ ignore_log = {}
    /\ pc = [t \in Threads |-> "idle"]
    /\ frame = [t \in Threads |-> None]
    /\ computed_from = {}
    /\ lru = <<>>
    /\ touched = <<>>
    /\ written = <<>>
    /\ were_set = {}
    /\ user_added = {}

InitWith(seed) == InitStore(seed, NoCall)

Init == InitWith(SeedLexemes)

(***************************************************************************)
(* Operations of the engine and of the wordbank, one request at a time     *)
(***************************************************************************)
\* TypoEngine.classify_unknown(token=token, sentence_start=sentence_start)
ClassifyUnknown(token, sentence_start) ==
    \E c \in {Call(EngineNow, token, sentence_start)} :
       /\ steps < MaxSteps
       /\ steps' = steps + 1
       /\ EngineBecomes(c.eng)
       /\ last' = [op |-> "classify_unknown", seen |-> c.seen]
       /\ UNCHANGED <<lexemes, surface_forms, ignored_tokens, typo_feedback, now,
                      providerVars, ignore_log, threadVars,
                      lruVars, user_added>>

\* TypoEngine.add_ignored_token(token, scope=scope, expires_at=expires_at)
AddIgnoredToken(token, scope, expires_at) ==
    \E normalized \in {FormsTable[token].normalized} :
       /\ steps < MaxSteps
       /\ steps' = steps + 1
       /\ last' = [op |-> "add_ignored_token", token |-> token, scope |-> scope,
                   expires_at |-> expires_at]
       /\ IF normalized = <<>>
          THEN UNCHANGED <<ignored_tokens, ignored_tokens_cache, cache, historyVars>>
          ELSE /\ ignored_tokens' = UpsertIgnored(ignored_tokens, normalized, scope, expires_at)
               /\ ignored_tokens_cache' = RememberIgnored(ignored_tokens_cache, normalized)
               /\ cache' = LRUClear
               /\ answered' = {}
               /\ stale' = {}
               /\ ignore_log' = ignore_log \cup
                                  {[token |-> normalized, expires_at |-> expires_at]}
       /\ UNCHANGED <<lexemes, surface_forms, token_events, typo_feedback, now,
                      providerVars, threadVars,
                      lruVars, user_added>>

\* the rows add_feedback may be asked to record
FeedbackRequests ==
    {[raw_token |-> w_spisr, predicted_status |-> "typo_likely",
      suggestions_shown |-> <<w_spiser>>, user_action |-> "replace",
      chosen_value |-> Some(w_spiser)]}

\* a variant of add_feedback that also clears the cache
AddFeedbackInvalidating(request) ==
    /\ steps < MaxSteps
    /\ steps' = steps + 1
    /\ typo_feedback' = Append(typo_feedback, request)
    /\ cache' = LRUClear
    /\ last' = [op |-> "add_feedback", request |-> request]
    /\ UNCHANGED <<lexemes, surface_forms, ignored_tokens, token_events, now, providerVars,
                   ignored_tokens_cache, historyVars, threadVars,
                   lruVars, user_added>>

\* TypoEngine.add_feedback(**request)
AddFeedback(request) ==
    /\ steps < MaxSteps
    /\ steps' = steps + 1
    /\ typo_feedback' = Append(typo_feedback, request)
    /\ last' = [op |-> "add_feedback", request |-> request]
    /\ UNCHANGED <<lexemes, surface_forms, ignored_tokens, token_events, now, providerVars,
                   cache, ignored_tokens_cache, historyVars, threadVars,
                   lruVars, user_added>>

\* TypoEngine.invalidate_cache()
InvalidateCache ==
    /\ steps < MaxSteps
    /\ steps' = steps + 1
    /\ cache' = LRUClear
    /\ answered' = {}
    /\ stale' = {}
    /\ last' = [op |-> "invalidate_cache"]
    /\ UNCHANGED <<dbVars, now, providerVars, ignored_tokens_cache, ignore_log, threadVars,
                   lruVars, user_added>>

\* WordbankUseCase.add_word(surface_token, lemma_candidate), the engine attached
AddWordUseCase(surface_token, lemma_candidate) ==
    \E w \in {add_word(lexemes, surface_forms, surface_token, lemma_candidate)} :
       /\ steps < MaxSteps
       /\ steps' = steps + 1
       /\ lexemes' = w.lexemes
       /\ surface_forms' = w.surface_forms
       /\ last' = [op |-> "add_word", via |-> "use_case", inserted |-> w.inserted,
                   stored_lemma |-> w.stored_lemma]
       /\ IF w.inserted
          THEN /\ symspell' = provider_add_user_lexeme(symspell, w.stored_lemma)
               /\ cache' = LRUClear
               /\ answered' = {}
               /\ stale' = {}
               /\ user_added' = user_added \cup {w.stored_lemma}
          ELSE UNCHANGED <<symspell, cache, answered, stale, user_added>>
       /\ UNCHANGED <<ignored_tokens, token_events, typo_feedback, now, build, general_words,
                      suggestion_words, ignored_tokens_cache, ignore_log, threadVars,
                      lruVars>>

\* POST /wordbank/lexemes: add_word of api/routes/wordbank.py
AddWordRoute(surface_token, lemma_candidate) ==
    \E w \in {add_word(lexemes, surface_forms, surface_token, lemma_candidate)} :
       /\ steps < MaxSteps
       /\ steps' = steps + 1
       /\ lexemes' = w.lexemes
       /\ surface_forms' = w.surface_forms
       /\ last' = [op |-> "add_word", via |-> "route", inserted |-> w.inserted,
                   stored_lemma |-> w.stored_lemma]
       /\ IF w.inserted
          THEN /\ answered' = {}
               /\ stale' = CacheKeys(cache)
          ELSE UNCHANGED <<answered, stale>>
       /\ UNCHANGED <<ignored_tokens, token_events, typo_feedback, now, providerVars, cache,
                      ignored_tokens_cache, ignore_log, threadVars,
                      lruVars, user_added>>

\* the store after os.remove and apply_migrations: every table empty
StoreIsReset ==
    /\ lexemes' = {}
    /\ surface_forms' = {}
    /\ ignored_tokens' = {}
    /\ token_events' = <<>>
    /\ typo_feedback' = <<>>

\* WordbankUseCase.reset_database(), the engine attached
ResetDatabaseUseCase ==
    /\ steps < MaxSteps
    /\ steps' = steps + 1
    /\ StoreIsReset
    /\ cache' = LRUClear
    /\ answered' = {}
    /\ stale' = {}
    /\ last' = [op |-> "reset_database", via |-> "use_case"]
    /\ UNCHANGED <<now, providerVars, ignored_tokens_cache, ignore_log, threadVars,
                   lruVars, user_added>>

\* DELETE /wordbank/database: reset_database of api/routes/wordbank.py
ResetDatabaseRoute ==
    /\ steps < MaxSteps
    /\ steps' = steps + 1
    /\ StoreIsReset
    /\ answered' = {}
    /\ last' = [op |-> "reset_database", via |-> "route"]
    /\ UNCHANGED <<now, providerVars, cache, ignored_tokens_cache, stale, ignore_log,
                   threadVars,
                   lruVars, user_added>>

\* the clock of the store advances
Tick ==
    /\ steps < MaxSteps
    /\ steps' = steps + 1
    /\ now' = now + 1
    /\ last' = [op |-> "tick"]
    /\ UNCHANGED <<dbVars, providerVars, cache, ignored_tokens_cache, historyVars,
                   threadVars,
                   lruVars, user_added>>

Next ==
    \/ \E c \in EngineCalls : ClassifyUnknown(c[1], c[2])
    \/ \E r \in IgnoreRequests : AddIgnoredToken(r[1], r[2], r[3])
    \/ \E f \in FeedbackRequests : AddFeedback(f)
    \/ InvalidateCache
    \/ \E r \in AddWordRequests : AddWordUseCase(r[1], r[2])
    \/ \E r \in AddWordRequests : AddWordRoute(r[1], r[2])
    \/ ResetDatabaseUseCase
    \/ ResetDatabaseRoute
    \/ Tick

Spec == Init /\ [][Next]_vars

(***************************************************************************)
(* nlp/lemma_candidate_ranker.py, with tag = None; the weights are in      *)
(* hundredths                                                              *)
(***************************************************************************)
\* "ens", "ets", "es", "en", "et", "erne", "ene", "er", "est", "st", "ede",
\* "te", "s", "t"
_INFLECTION_SUFFIXES ==
    {<<101, 110, 115>>, <<101, 116, 115>>, <<101, 115>>, <<101, 110>>, <<101, 116>>,
     <<101, 114, 110, 101>>, <<101, 110, 101>>, <<101, 114>>, <<101, 115, 116>>,
     <<115, 116>>, <<101, 100, 101>>, <<116, 101>>, <<115>>, <<116>>}

EndsWith(s, suffix) ==
    Len(s) >= Len(suffix) /\ SubSeq(s, Len(s) - Len(suffix) + 1, Len(s)) = suffix
StartsWith(s, prefix) ==
    Len(s) >= Len(prefix) /\ SubSeq(s, 1, Len(prefix)) = prefix

normalize_candidate(text) == Lower(JoinSplit(text))

\* the candidates normalized, the empty ones and the repeated ones dropped
RECURSIVE DistinctNormalized(_, _, _)
DistinctNormalized(raw, k, acc) ==
    IF k > Len(raw) THEN acc
    ELSE LET candidate == normalize_candidate(raw[k])
         IN IF candidate = <<>> \/ InSeq(candidate, acc)
            THEN DistinctNormalized(raw, k + 1, acc)
            ELSE DistinctNormalized(raw, k + 1, Append(acc, candidate))

merge_candidates(primary_tag_candidates, fallback_candidates) ==
    DistinctNormalized(primary_tag_candidates \o fallback_candidates, 1, <<>>)

\* the score of rank_candidates for the candidate at position index (from 0);
\* without a tag only the low-confidence penalty applies among the tag terms
LemmaScore(normalized_surface, candidate, index) ==
    (IF candidate = normalized_surface THEN -110 ELSE 0)
    + 25 * Len(candidate)
    - 110 * (IF Len(normalized_surface) >= Len(candidate)
             THEN Len(normalized_surface) - Len(candidate)
             ELSE Len(candidate) - Len(normalized_surface))
    + (IF \E suffix \in _INFLECTION_SUFFIXES : EndsWith(candidate, suffix) THEN 190 ELSE 0)
    + (IF Len(candidate) <= 2 THEN -80 ELSE 0)
    + 90
    + (IF Len(normalized_surface) > Len(candidate) /\ StartsWith(normalized_surface, candidate)
       THEN -12 ELSE 0)
    + 14 * index

\* positions of candidates sorted by (score, index)
RECURSIVE SortByLemmaScore(_, _, _)
SortByLemmaScore(normalized_surface, candidates, positions) ==
    IF positions = {} THEN <<>>
    ELSE LET Key(k) == LemmaScore(normalized_surface, candidates[k], k - 1)
             m == CHOOSE k \in positions :
                     \A j \in positions \ {k} : Key(k) < Key(j) \/ (Key(k) = Key(j) /\ k < j)
         IN <<candidates[m]>> \o SortByLemmaScore(normalized_surface, candidates, positions \ {m})

lemma_rank_candidates(surface, candidates) ==
    LET normalized_candidates == SelectSeq([k \in 1..Len(candidates) |->
                                               normalize_candidate(candidates[k])],
                                           LAMBDA c : c # <<>>)
    IN SortByLemmaScore(normalize_candidate(surface), normalized_candidates,
                        1..Len(normalized_candidates))

\* a variant that takes the best-ranked candidate whether the store has it or not
PickBestRanked(surface, primary_tag_candidates, fallback_candidates, lexeme_set) ==
    LET ranked == lemma_rank_candidates(surface,
                                        merge_candidates(primary_tag_candidates, fallback_candidates))
    IN IF ranked = <<>> THEN None ELSE Some(ranked[1])

pick_best_candidate_in_lexicon(surface, primary_tag_candidates, fallback_candidates, lexeme_set) ==
    LET ranked == lemma_rank_candidates(surface,
                                        merge_candidates(primary_tag_candidates, fallback_candidates))
        found == SelectSeq(ranked, LAMBDA c : c \in lexeme_set)
    IN IF found = <<>> THEN None ELSE Some(found[1])

(***************************************************************************)
(* services/token_classifier.py: LemmaAwareClassifier, the engine attached *)
(***************************************************************************)
TokenClassification(surface_token, normalized_token, lemma_candidate, classification, match_source, matched_lemma, matched_surface_form, suggestions, confidence, reason_tags) ==
    [surface_token |-> surface_token, normalized_token |-> normalized_token,
     lemma_candidate |-> lemma_candidate, classification |-> classification,
     match_source |-> match_source, matched_lemma |-> matched_lemma,
     matched_surface_form |-> matched_surface_form, suggestions |-> suggestions,
     confidence |-> confidence, reason_tags |-> reason_tags]

\* answer is what the lemmatizer returns for the token
_lemma_candidates_for_token(answer) ==
    LET candidates == DistinctNormalized(answer.candidates, 1, <<>>)
        fallback == normalize_token(IF answer.lemma = None THEN <<>> ELSE The(answer.lemma))
    IN IF candidates # <<>> THEN candidates
       ELSE IF fallback = <<>> THEN <<>>
       ELSE <<fallback>>

\* the classification built from a classify_unknown result, and the engine
\* after the call
_new_with_typo_fallback(eng, token, normalized, sentence_start) ==
    Bind(Call(eng, token, sentence_start), LAMBDA c :
    Bind(c.seen.result, LAMBDA typo_result :
        [eng |-> c.eng,
         seen |-> Some(c.seen),
         result |-> TokenClassification(
                        token,
                        IF typo_result.normalized # <<>> THEN typo_result.normalized ELSE normalized,
                        IF typo_result.suggestions # <<>>
                            THEN Some(typo_result.suggestions[1].value) ELSE None,
                        typo_result.status, "none", None, None,
                        typo_result.suggestions, typo_result.confidence,
                        typo_result.reason_tags)]))

\* a variant that hands the token to the typo engine all the same and drops
\* what it answers
DirectAfterEngine(eng, result) ==
    [eng |-> Call(eng, result.surface_token, FALSE).eng, seen |-> None, result |-> result]

\* a classification made without the typo engine
Direct(eng, result) == [eng |-> eng, seen |-> None, result |-> result]

\* lines 160-193: the typo fallback keeps its own lemma candidate, else takes
\* the first candidate of the lemmatizer
WithLemmaCandidate(fallback, lemma_candidates) ==
    IF fallback.result.lemma_candidate = None
    THEN [fallback EXCEPT !.result.lemma_candidate = Some(lemma_candidates[1])]
    ELSE fallback

\* the rows of surface_forms have distinct forms in this model, so that the
\* row LIMIT 1 returns is determined
_classify_with_connection(eng, token, sentence_start, answer) ==
    Bind(normalize_token(token), LAMBDA normalized :
    Bind({sf \in surface_forms : sf[1] = normalized}, LAMBDA exact_rows :
    Bind(_lemma_candidates_for_token(answer), LAMBDA lemma_candidates :
        IF normalized = <<>>
        THEN Direct(eng, TokenClassification(token, normalized, None, "new", "none", None, None,
                                             <<>>, 0, <<>>))
        ELSE IF exact_rows # {}
        THEN Bind(CHOOSE sf \in exact_rows : TRUE, LAMBDA exact_row :
                 Direct(eng, TokenClassification(token, normalized, Some(exact_row[2]),
                                                 "known", "exact",
                                                 Some(exact_row[2]), Some(exact_row[1]),
                                                 <<>>, 0, <<"exact_match">>)))
        ELSE IF normalized \in lexemes
        THEN Direct(eng, TokenClassification(token, normalized, Some(normalized),
                                             "known", "exact",
                                             Some(normalized), Some(normalized),
                                             <<>>, 0, <<"exact_match">>))
        ELSE IF lemma_candidates = <<>>
        THEN _new_with_typo_fallback(eng, token, normalized, sentence_start)
        ELSE Bind(pick_best_candidate_in_lexicon(
                      normalized, lemma_candidates, <<>>,
                      {normalize_candidate(l) : l \in {x \in lexemes : InSeq(x, lemma_candidates)}}),
                  LAMBDA matched_lemma :
                 IF matched_lemma = None
                 THEN WithLemmaCandidate(
                          _new_with_typo_fallback(eng, token, normalized, sentence_start),
                          lemma_candidates)
                 ELSE Direct(eng, TokenClassification(token, normalized,
                                                      Some(lemma_candidates[1]),
                                                      "variation", "lemma", matched_lemma, None,
                                                      <<>>, 0, <<"lemma_match">>))))))

\* is the token's normalized form (trimmed, lowercased, whitespace collapsed,
\* edge punctuation stripped) a stored surface form
SurfaceFormKnown(token) ==
    \E sf \in surface_forms : sf[1] = FormsTable[token].normalized

\* a variant that takes every token of the batch as sentence-initial
RECURSIVE ClassifyManyAllInitial(_, _, _, _, _)
ClassifyManyAllInitial(eng, tokens, k, answer, items) ==
    IF k > Len(tokens) THEN [eng |-> eng, items |-> items]
    ELSE Bind(_classify_with_connection(eng, tokens[k], TRUE, answer), LAMBDA r :
             ClassifyManyAllInitial(r.eng, tokens, k + 1, answer,
                           Append(items, [token |-> tokens[k], sentence_start |-> TRUE,
                                          surface_known |-> SurfaceFormKnown(tokens[k]),
                                          seen |-> r.seen, result |-> r.result])))

\* classify_many: the tokens in order, the first one at the sentence start
RECURSIVE classify_many(_, _, _, _, _)
classify_many(eng, tokens, k, answer, items) ==
    IF k > Len(tokens) THEN [eng |-> eng, items |-> items]
    ELSE Bind(_classify_with_connection(eng, tokens[k], k = 1, answer), LAMBDA r :
             classify_many(r.eng, tokens, k + 1, answer,
                           Append(items, [token |-> tokens[k], sentence_start |-> (k = 1),
                                          surface_known |-> SurfaceFormKnown(tokens[k]),
                                          seen |-> r.seen, result |-> r.result])))

\* LemmaAwareClassifier.classify(token)
Classify(token, answer) ==
    \E r \in {_classify_with_connection(EngineNow, token, FALSE, answer)} :
       /\ steps < MaxSteps
       /\ steps' = steps + 1
       /\ EngineBecomes(r.eng)
       /\ last' = [op |-> "classify", tokens |-> <<token>>, answer |-> answer,
                   items |-> <<[token |-> token, sentence_start |-> FALSE,
                                surface_known |-> SurfaceFormKnown(token),
                                seen |-> r.seen, result |-> r.result]>>]
       /\ UNCHANGED <<lexemes, surface_forms, ignored_tokens, typo_feedback, now,
                      providerVars, ignore_log, threadVars,
                      lruVars, user_added>>

\* LemmaAwareClassifier.classify_many(tokens)
ClassifyMany(tokens, answer) ==
    \E r \in {classify_many(EngineNow, tokens, 1, answer, <<>>)} :
       /\ steps < MaxSteps
       /\ steps' = steps + 1
       /\ EngineBecomes(r.eng)
       /\ last' = [op |-> "classify_many", tokens |-> tokens, answer |-> answer,
                   items |-> r.items]
       /\ UNCHANGED <<lexemes, surface_forms, ignored_tokens, typo_feedback, now,
                      providerVars, ignore_log, threadVars,
                      lruVars, user_added>>

NextClassifier ==
    \/ \E t \in ClassifierTokens, a \in LemmaAnswers : Classify(t, a)
    \/ \E b \in ClassifierBatches, a \in LemmaAnswers : ClassifyMany(b, a)
    \/ \E r \in AddWordRequests : AddWordUseCase(r[1], r[2])
    \/ \E r \in ClassifierIgnoreRequests : AddIgnoredToken(r[1], r[2], r[3])

SpecClassifier == Init /\ [][NextClassifier]_vars

(***************************************************************************)
(* Concurrent requests: the routes are synchronous handlers run on worker  *)
(* threads, and neither the engine nor the provider takes a lock.  A       *)
(* classify_unknown call is the steps ReaderGate, ReaderLookup,            *)
(* ReaderCompute, ReaderStore; an add_word of the use case is the steps    *)
(* WriterStore, WriterIndex, WriterClear.                                  *)
(***************************************************************************)
\* the calls and the add-word requests of the threads
ConcurrentCalls == {<<w_spisr, FALSE>>, <<t_Spisr, FALSE>>}
ConcurrentWordRequests == {<<w_spise, None>>}

\* the candidate index a computation reads: the fuzzy structure and the user
\* lemmas
IndexNow == <<symspell, lexemes>>

\* the local variables of a classify_unknown call in flight
ReaderFrame(token, sentence_start, forms, gating, result) ==
    Some([token |-> token, sentence_start |-> sentence_start,
          forms |-> forms, gating |-> gating,
          cache_key |-> CacheKey(forms.normalized, sentence_start),
          result |-> result, index |-> None])

\* classify_unknown, lines 86-115: the gate and _is_ignored
ReaderGate(r, token, sentence_start) ==
    \E forms \in {FormsTable[token]} :
    \E gating \in {should_run_typo_check(token, forms.normalized, sentence_start)} :
    \E ignoredSet \in {IgnoredSetAfterLoad(ignored_tokens_cache, ignored_tokens, now)} :
    \E skipped \in {SkipResult(forms.normalized, gating.reason_tags)} :
    \E ignored \in {SkipResult(forms.normalized, <<"gating_skip_ignored">>)} :
       /\ pc[r] = "idle"
       /\ IF ~gating.should_run
          THEN /\ token_events' = Append(token_events, EventRow(token, skipped))
               /\ frame' = [frame EXCEPT ![r] = ReaderFrame(token, sentence_start, forms,
                                                            gating, Some(skipped))]
               /\ pc' = [pc EXCEPT ![r] = "done"]
               /\ UNCHANGED ignored_tokens_cache
          ELSE /\ ignored_tokens_cache' = Some(ignoredSet)
               /\ IF forms.normalized \in ignoredSet
                  THEN /\ token_events' = Append(token_events, EventRow(token, ignored))
                       /\ frame' = [frame EXCEPT ![r] = ReaderFrame(token, sentence_start,
                                                                    forms, gating,
                                                                    Some(ignored))]
                       /\ pc' = [pc EXCEPT ![r] = "done"]
                  ELSE /\ frame' = [frame EXCEPT ![r] = ReaderFrame(token, sentence_start,
                                                                    forms, gating, None)]
                       /\ pc' = [pc EXCEPT ![r] = "lookup"]
                       /\ UNCHANGED token_events
       /\ UNCHANGED <<lexemes, surface_forms, ignored_tokens, typo_feedback, now, providerVars,
                      cache, last, steps, historyVars, computed_from,
                      lruVars, user_added>>

\* classify_unknown, lines 117-120: cache.get
ReaderLookup(r) ==
    /\ pc[r] = "lookup"
    /\ \E local \in {The(frame[r])} :
       \E cached \in {LRUGetValue(cache, local.cache_key)} :
       /\ IF cached # None
          THEN /\ cache' = LRUGetStore(cache, local.cache_key)
               /\ frame' = [frame EXCEPT ![r] = Some([local EXCEPT !.result = cached])]
               /\ pc' = [pc EXCEPT ![r] = "done"]
          ELSE /\ pc' = [pc EXCEPT ![r] = "compute"]
               /\ UNCHANGED <<cache, frame>>
       /\ UNCHANGED <<dbVars, now, providerVars, ignored_tokens_cache, last, steps,
                      historyVars, computed_from,
                      lruVars, user_added>>

\* classify_unknown, lines 122-169: the result, computed against the index
\* as it is now
ReaderCompute(r) ==
    /\ pc[r] = "compute"
    /\ \E local \in {The(frame[r])} :
       \E computed \in {ComputeResult(World, local.forms, local.gating)} :
       /\ frame' = [frame EXCEPT ![r] = Some([local EXCEPT !.result = Some(computed.result),
                                                           !.index = Some(IndexNow)])]
       /\ pc' = [pc EXCEPT ![r] = "store"]
       /\ UNCHANGED <<dbVars, now, providerVars, cache, ignored_tokens_cache, last, steps,
                      historyVars, computed_from,
                      lruVars, user_added>>

\* classify_unknown, lines 131-133 and 170-172: cache.set and _log_event
ReaderStore(r) ==
    /\ pc[r] = "store"
    /\ \E local \in {The(frame[r])} :
       /\ cache' = LRUSet(cache, local.cache_key, The(local.result), max_size)
       /\ token_events' = Append(token_events, EventRow(local.token, The(local.result)))
       /\ computed_from' = {p \in computed_from : p[1] # local.cache_key}
                               \cup {<<local.cache_key, The(local.index)>>}
       /\ pc' = [pc EXCEPT ![r] = "done"]
       /\ UNCHANGED <<lexemes, surface_forms, ignored_tokens, typo_feedback, now, providerVars,
                      ignored_tokens_cache, last, steps, historyVars, frame,
                      lruVars, user_added>>

\* WordbankUseCase.add_word, lines 48-118: the rows stored
WriterStore(surface_token, lemma_candidate) ==
    \E w \in {add_word(lexemes, surface_forms, surface_token, lemma_candidate)} :
       /\ pc["writer"] = "idle"
       /\ lexemes' = w.lexemes
       /\ surface_forms' = w.surface_forms
       /\ frame' = [frame EXCEPT !["writer"] = Some([stored_lemma |-> w.stored_lemma])]
       /\ pc' = [pc EXCEPT !["writer"] = IF w.inserted THEN "index" ELSE "done"]
       /\ UNCHANGED <<ignored_tokens, token_events, typo_feedback, now, providerVars, cache,
                      ignored_tokens_cache, last, steps, historyVars, computed_from,
                      lruVars, user_added>>

\* TypoEngine.add_user_lexeme, line 175: candidates.add_user_lexeme
WriterIndex ==
    /\ pc["writer"] = "index"
    /\ symspell' = provider_add_user_lexeme(symspell, The(frame["writer"]).stored_lemma)
    /\ user_added' = user_added \cup {The(frame["writer"]).stored_lemma}
    /\ pc' = [pc EXCEPT !["writer"] = "clear"]
    /\ UNCHANGED <<dbVars, now, build, general_words, suggestion_words, cache,
                   ignored_tokens_cache, last, steps, historyVars, frame, computed_from,
                   lruVars>>

\* TypoEngine.add_user_lexeme, line 176: cache.clear
WriterClear ==
    /\ pc["writer"] = "clear"
    /\ cache' = LRUClear
    /\ computed_from' = {}
    /\ pc' = [pc EXCEPT !["writer"] = "done"]
    /\ UNCHANGED <<dbVars, now, providerVars, ignored_tokens_cache, last, steps,
                   historyVars, frame,
                   lruVars, user_added>>

NextConcurrent ==
    \/ \E r \in Readers, c \in ConcurrentCalls : ReaderGate(r, c[1], c[2])
    \/ \E r \in Readers : ReaderLookup(r)
    \/ \E r \in Readers : ReaderCompute(r)
    \/ \E r \in Readers : ReaderStore(r)
    \/ \E q \in ConcurrentWordRequests : WriterStore(q[1], q[2])
    \/ WriterIndex
    \/ WriterClear

SpecConcurrent == Init /\ [][NextConcurrent]_vars

(***************************************************************************)
(* The gate under every kind of token                                      *)
(***************************************************************************)
NextGate ==
    \/ \E c \in GateCalls : ClassifyUnknown(c[1], c[2])
    \/ \E r \in GateIgnoreRequests : AddIgnoredToken(r[1], r[2], r[3])
    \/ \E r \in AddWordRequests : AddWordUseCase(r[1], r[2])
    \/ InvalidateCache

SpecGate == Init /\ [][NextGate]_vars

(***************************************************************************)
(* typo/cache.py: an LRUCache(max_size=LruMaxSize) on its own, under any   *)
(* sequence of get, set and clear                                          *)
(***************************************************************************)
\* bounds of the model: max_size of the cache observed, and the number of its
\* operations in a run
LruMaxSize == 2
MaxCacheOps == 4
\* the keys and the values handed to the cache
LruKeys == {1, 2, 3}
LruValues == {1, 2}

\* the key becomes the most recently touched one
Touch(order, key) == Append(SelectSeq(order, LAMBDA k : k # key), key)

\* LRUCache.get(key)
CacheGet(key) ==
    /\ steps < MaxCacheOps
    /\ steps' = steps + 1
    /\ lru' = LRUGetStore(lru, key)
    /\ \E returned \in {LRUGetValue(lru, key)} :
          /\ last' = [op |-> "cache_get", key |-> key, returned |-> returned,
                      present |-> key \in CacheKeys(lru)]
          /\ touched' = IF returned # None THEN Touch(touched, key) ELSE touched
    /\ UNCHANGED <<dbVars, now, providerVars, cache, ignored_tokens_cache, historyVars,
                   threadVars, written, were_set, user_added>>

\* LRUCache.set(key, value)
CacheSet(key, value) ==
    /\ steps < MaxCacheOps
    /\ steps' = steps + 1
    /\ \E store \in {LRUSet(lru, key, value, LruMaxSize)} :
          /\ lru' = store
          /\ last' = [op |-> "cache_set", key |-> key, value |-> value,
                      evicted |-> CacheKeys(lru) \ CacheKeys(store)]
    /\ touched' = Touch(touched, key)
    /\ written' = [k \in DOMAIN written \cup {key} |-> IF k = key THEN value ELSE written[k]]
    /\ were_set' = were_set \cup {<<key, value>>}
    /\ UNCHANGED <<dbVars, now, providerVars, cache, ignored_tokens_cache, historyVars,
                   threadVars, user_added>>

\* LRUCache.clear()
CacheClear ==
    /\ steps < MaxCacheOps
    /\ steps' = steps + 1
    /\ lru' = LRUClear
    /\ touched' = <<>>
    /\ written' = <<>>
    /\ last' = [op |-> "cache_clear"]
    /\ UNCHANGED <<dbVars, now, providerVars, cache, ignored_tokens_cache, historyVars,
                   threadVars, were_set, user_added>>

NextCache ==
    \/ \E k \in LruKeys : CacheGet(k)
    \/ \E k \in LruKeys, v \in LruValues : CacheSet(k, v)
    \/ CacheClear

SpecCache == Init /\ [][NextCache]_vars

(***************************************************************************)
(* typo/cache.py: the same LRUCache used by request threads at once.  The  *)
(* class takes no lock, so a thread can be suspended between any two       *)
(* operations on _store; each action below is one such operation.  A       *)
(* statement that raises KeyError leaves its thread at "failed".           *)
(***************************************************************************)
\* the keys and the values of the racing calls
RaceKeys == {1, 2, 3}
RaceValues == {1, 2}

\* _store[key] = value: a present key keeps its place, a new key goes last
StoreAssign(store, key, value) ==
    IF key \in CacheKeys(store)
    THEN [k \in 1..Len(store) |->
             IF store[k].key = key THEN [key |-> key, value |-> value] ELSE store[k]]
    ELSE Append(store, [key |-> key, value |-> value])

\* the thread leaves its call
RaceReturns(t, returned) ==
    /\ pc' = [pc EXCEPT ![t] = "idle"]
    /\ last' = [op |-> "race_" \o The(frame[t]).op, thread |-> t,
                key |-> The(frame[t]).key, returned |-> returned]
    /\ frame' = [frame EXCEPT ![t] = None]

\* the statement at which the thread stands raises KeyError
RaceRaises(t) ==
    /\ pc' = [pc EXCEPT ![t] = "failed"]
    /\ last' = [op |-> "race_raised", thread |-> t, call |-> The(frame[t]).op,
                key |-> The(frame[t]).key, at |-> pc[t]]
    /\ UNCHANGED <<frame, lru>>

\* get, line 20: if key not in self._store: return None
RaceGetBegin(t, key) ==
    /\ pc[t] = "idle"
    /\ steps < MaxCacheOps
    /\ steps' = steps + 1
    /\ IF key \notin CacheKeys(lru)
       THEN /\ last' = [op |-> "race_get", thread |-> t, key |-> key, returned |-> None]
            /\ UNCHANGED <<pc, frame>>
       ELSE /\ pc' = [pc EXCEPT ![t] = "get_pop"]
            /\ frame' = [frame EXCEPT ![t] = Some([op |-> "get", key |-> key, value |-> None])]
            /\ UNCHANGED last
    /\ UNCHANGED <<dbVars, now, providerVars, cache, ignored_tokens_cache, historyVars,
                   computed_from, lruVars, user_added>>

\* get, line 22: value = self._store.pop(key)
RaceGetPop(t) ==
    /\ pc[t] = "get_pop"
    /\ \E local \in {The(frame[t])} :
          IF local.key \in CacheKeys(lru)
          THEN /\ lru' = CacheWithout(lru, local.key)
               /\ frame' = [frame EXCEPT ![t] =
                               Some([local EXCEPT !.value = LRUGetValue(lru, local.key)])]
               /\ pc' = [pc EXCEPT ![t] = "get_put"]
               /\ UNCHANGED last
          ELSE RaceRaises(t)
    /\ UNCHANGED <<dbVars, now, providerVars, cache, ignored_tokens_cache, steps, historyVars,
                   computed_from, touched, written, were_set, user_added>>

\* get, lines 23-24: self._store[key] = value; return value
RaceGetPut(t) ==
    /\ pc[t] = "get_put"
    /\ \E local \in {The(frame[t])} :
          /\ lru' = StoreAssign(lru, local.key, The(local.value))
          /\ RaceReturns(t, local.value)
    /\ UNCHANGED <<dbVars, now, providerVars, cache, ignored_tokens_cache, steps, historyVars,
                   computed_from, touched, written, were_set, user_added>>

\* set, line 27: if key in self._store
RaceSetBegin(t, key, value) ==
    /\ pc[t] = "idle"
    /\ steps < MaxCacheOps
    /\ steps' = steps + 1
    /\ pc' = [pc EXCEPT ![t] = IF key \in CacheKeys(lru) THEN "set_pop" ELSE "set_put"]
    /\ frame' = [frame EXCEPT ![t] = Some([op |-> "set", key |-> key, value |-> Some(value)])]
    /\ were_set' = were_set \cup {<<key, value>>}
    /\ UNCHANGED <<dbVars, now, providerVars, cache, ignored_tokens_cache, last, historyVars,
                   computed_from, lru, touched, written, user_added>>

\* set, line 28: self._store.pop(key)
RaceSetPop(t) ==
    /\ pc[t] = "set_pop"
    /\ \E local \in {The(frame[t])} :
          IF local.key \in CacheKeys(lru)
          THEN /\ lru' = CacheWithout(lru, local.key)
               /\ pc' = [pc EXCEPT ![t] = "set_put"]
               /\ UNCHANGED <<frame, last>>
          ELSE RaceRaises(t)
    /\ UNCHANGED <<dbVars, now, providerVars, cache, ignored_tokens_cache, steps, historyVars,
                   computed_from, touched, written, were_set, user_added>>

\* set, line 29: self._store[key] = value
RaceSetPut(t) ==
    /\ pc[t] = "set_put"
    /\ \E local \in {The(frame[t])} :
          lru' = StoreAssign(lru, local.key, The(local.value))
    /\ pc' = [pc EXCEPT ![t] = "set_len"]
    /\ UNCHANGED <<dbVars, now, providerVars, cache, ignored_tokens_cache, last, steps,
                   historyVars, frame, computed_from, touched, written, were_set, user_added>>

\* set, line 30: while len(self._store) > self.max_size
RaceSetLen(t) ==
    /\ pc[t] = "set_len"
    /\ IF Len(lru) > LruMaxSize
       THEN /\ pc' = [pc EXCEPT ![t] = "set_popitem"]
            /\ UNCHANGED <<frame, last>>
       ELSE RaceReturns(t, None)
    /\ UNCHANGED <<dbVars, now, providerVars, cache, ignored_tokens_cache, steps, historyVars,
                   computed_from, lruVars, user_added>>

\* set, line 31: self._store.popitem(last=False)
RaceSetPopitem(t) ==
    /\ pc[t] = "set_popitem"
    /\ IF lru # <<>>
       THEN /\ lru' = Tail(lru)
            /\ pc' = [pc EXCEPT ![t] = "set_len"]
            /\ UNCHANGED <<frame, last>>
       ELSE RaceRaises(t)
    /\ UNCHANGED <<dbVars, now, providerVars, cache, ignored_tokens_cache, steps, historyVars,
                   computed_from, touched, written, were_set, user_added>>

\* clear, line 34: self._store.clear()
RaceClear(t) ==
    /\ pc[t] = "idle"
    /\ steps < MaxCacheOps
    /\ steps' = steps + 1
    /\ lru' = LRUClear
    /\ last' = [op |-> "race_clear", thread |-> t]
    /\ UNCHANGED <<dbVars, now, providerVars, cache, ignored_tokens_cache, historyVars,
                   threadVars, touched, written, were_set, user_added>>

NextCacheRace ==
    \/ \E t \in Readers, k \in RaceKeys : RaceGetBegin(t, k)
    \/ \E t \in Readers : RaceGetPop(t)
    \/ \E t \in Readers : RaceGetPut(t)
    \/ \E t \in Readers, k \in RaceKeys, v \in RaceValues : RaceSetBegin(t, k, v)
    \/ \E t \in Readers : RaceSetPop(t)
    \/ \E t \in Readers : RaceSetPut(t)
    \/ \E t \in Readers : RaceSetLen(t)
    \/ \E t \in Readers : RaceSetPopitem(t)
    \/ \E t \in Readers : RaceClear(t)

SpecCacheRace == Init /\ [][NextCacheRace]_vars

(***************************************************************************)
(* typo_engine.py: add_ignored_token racing with the lazy load of the      *)
(* in-memory ignored-token set.  _is_ignored reads the table and then      *)
(* assigns the set; add_ignored_token writes the row, then adds to the set *)
(* if it is loaded, then clears the cache.  No lock is taken, so the       *)
(* threads interleave between these steps.                                 *)
(***************************************************************************)
\* the calls and the ignore requests of the racing threads
IgnoreRaceCalls == {<<w_spisr, FALSE>>, <<t_Spisr, FALSE>>, <<t_ab, FALSE>>}
IgnoreRaceRequests == {w_spisr, t_blank}

\* history: the tokens whose add_ignored_token has returned
SettledIgnores ==
    {e.token : e \in ignore_log}
        \ (IF pc["writer"] = "idle" THEN {} ELSE {The(frame["writer"]).normalized})

\* classify_unknown, lines 86-104 and 219: the gate, and the test whether the
\* set is loaded
LoaderBegin(r, token, sentence_start) ==
    /\ pc[r] = "idle"
    /\ steps < MaxSteps
    /\ steps' = steps + 1
    /\ IF ~should_run_typo_check(token, FormsTable[token].normalized, sentence_start).should_run
       THEN \E c \in {Call(EngineNow, token, sentence_start)} :
               /\ EngineBecomes(c.eng)
               /\ last' = [op |-> "classify_unknown", seen |-> c.seen, settled |-> {}]
               /\ UNCHANGED <<pc, frame>>
       ELSE /\ frame' = [frame EXCEPT ![r] = Some([token |-> token,
                                                    sentence_start |-> sentence_start,
                                                    loaded |-> None,
                                                    settled |-> SettledIgnores])]
            /\ pc' = [pc EXCEPT ![r] = IF ignored_tokens_cache = None
                                       THEN "ignore_select" ELSE "ignore_check"]
            /\ UNCHANGED <<cache, ignored_tokens_cache, token_events, answered, stale, last>>
    /\ UNCHANGED <<lexemes, surface_forms, ignored_tokens, typo_feedback, now, providerVars,
                   ignore_log, computed_from, lruVars, user_added>>

\* _ignored_tokens_from_db, lines 224-232: the SELECT
LoaderSelect(r) ==
    /\ pc[r] = "ignore_select"
    /\ frame' = [frame EXCEPT ![r] =
                    Some([The(frame[r]) EXCEPT
                             !.loaded = Some(_ignored_tokens_from_db(ignored_tokens, now))])]
    /\ pc' = [pc EXCEPT ![r] = "ignore_assign"]
    /\ UNCHANGED <<dbVars, now, providerVars, cache, ignored_tokens_cache, last, steps,
                   historyVars, computed_from, lruVars, user_added>>

\* _is_ignored, line 220: self._ignored_tokens_cache = (the set read)
LoaderAssign(r) ==
    /\ pc[r] = "ignore_assign"
    /\ ignored_tokens_cache' = The(frame[r]).loaded
    /\ pc' = [pc EXCEPT ![r] = "ignore_check"]
    /\ UNCHANGED <<dbVars, now, providerVars, cache, last, steps, historyVars, frame,
                   computed_from, lruVars, user_added>>

\* _is_ignored, line 221, and the rest of classify_unknown
LoaderCheck(r) ==
    /\ pc[r] = "ignore_check"
    /\ \E c \in {Call(EngineNow, The(frame[r]).token, The(frame[r]).sentence_start)} :
          /\ EngineBecomes(c.eng)
          /\ last' = [op |-> "classify_unknown", seen |-> c.seen,
                      settled |-> The(frame[r]).settled]
    /\ pc' = [pc EXCEPT ![r] = "idle"]
    /\ frame' = [frame EXCEPT ![r] = None]
    /\ UNCHANGED <<lexemes, surface_forms, ignored_tokens, typo_feedback, now, providerVars,
                   steps, ignore_log, computed_from, lruVars, user_added>>

\* add_ignored_token, lines 182-194: the row written
IgnorerInsert(token) ==
    /\ pc["writer"] = "idle"
    /\ steps < MaxSteps
    /\ steps' = steps + 1
    /\ \E normalized \in {FormsTable[token].normalized} :
          IF normalized = <<>>
          THEN /\ last' = [op |-> "add_ignored_token", token |-> token, scope |-> "global",
                           expires_at |-> None]
               /\ UNCHANGED <<ignored_tokens, ignore_log, pc, frame>>
          ELSE /\ ignored_tokens' = UpsertIgnored(ignored_tokens, normalized, "global", None)
               /\ ignore_log' = ignore_log \cup {[token |-> normalized, expires_at |-> None]}
               /\ frame' = [frame EXCEPT !["writer"] = Some([token |-> token,
                                                             normalized |-> normalized])]
               /\ pc' = [pc EXCEPT !["writer"] = "ignore_remember"]
               /\ UNCHANGED last
    /\ UNCHANGED <<lexemes, surface_forms, token_events, typo_feedback, now, providerVars,
                   cache, ignored_tokens_cache, answered, stale, computed_from, lruVars,
                   user_added>>

\* add_ignored_token, lines 195-196: the set, if loaded, takes the token
IgnorerRemember ==
    /\ pc["writer"] = "ignore_remember"
    /\ ignored_tokens_cache' = RememberIgnored(ignored_tokens_cache,
                                               The(frame["writer"]).normalized)
    /\ pc' = [pc EXCEPT !["writer"] = "ignore_clear"]
    /\ UNCHANGED <<dbVars, now, providerVars, cache, last, steps, historyVars, frame,
                   computed_from, lruVars, user_added>>

\* add_ignored_token, line 197: cache.clear
IgnorerClear ==
    /\ pc["writer"] = "ignore_clear"
    /\ cache' = LRUClear
    /\ answered' = {}
    /\ stale' = {}
    /\ last' = [op |-> "add_ignored_token", token |-> The(frame["writer"]).token,
                scope |-> "global", expires_at |-> None]
    /\ pc' = [pc EXCEPT !["writer"] = "idle"]
    /\ frame' = [frame EXCEPT !["writer"] = None]
    /\ UNCHANGED <<dbVars, now, providerVars, ignored_tokens_cache, steps, ignore_log,
                   computed_from, lruVars, user_added>>

NextIgnoreRace ==
    \/ \E r \in Readers, c \in IgnoreRaceCalls : LoaderBegin(r, c[1], c[2])
    \/ \E r \in Readers : LoaderSelect(r)
    \/ \E r \in Readers : LoaderAssign(r)
    \/ \E r \in Readers : LoaderCheck(r)
    \/ \E t \in IgnoreRaceRequests : IgnorerInsert(t)
    \/ IgnorerRemember
    \/ IgnorerClear

SpecIgnoreRace == Init /\ [][NextIgnoreRace]_vars

(***************************************************************************)
(* typo/normalization.py and normalize_token of the classifier, applied to *)
(* every string of up to MaxTokenLen characters of NormalizeChars          *)
(***************************************************************************)
\* bound of the model: the length of the strings normalized
MaxTokenLen == 3
\* space, full stop, right single quotation mark, "A", "a", "e", the letter 230
NormalizeChars == {32, 46, 8217, 65, 97, 101, 230}
NormalizeInputs == UNION {[1..n -> NormalizeChars] : n \in 0..MaxTokenLen}

\* the string to normalize stands in last
InitNormalize ==
    \E x \in NormalizeInputs : InitStore(SeedLexemes, [op |-> "input", token |-> x])

\* normalize_for_typo_compare(token), normalize_for_typo_compare of what it
\* returned, and comparison_forms(token)
NormalizeForTypoCompare ==
    /\ last.op = "input"
    /\ \E normalized \in {normalize_for_typo_compare(last.token)} :
          last' = [op |-> "normalize_for_typo_compare", token |-> last.token,
                   normalized |-> normalized,
                   again |-> normalize_for_typo_compare(normalized),
                   forms |-> comparison_forms(last.token)]
    /\ steps' = steps + 1
    /\ UNCHANGED <<dbVars, now, providerVars, cache, ignored_tokens_cache, historyVars,
                   threadVars, lruVars, user_added>>

\* normalize_token(token) and normalize_token of what it returned
NormalizeToken ==
    /\ last.op = "input"
    /\ \E normalized \in {normalize_token(last.token)} :
          last' = [op |-> "normalize_token", token |-> last.token,
                   normalized |-> normalized,
                   again |-> normalize_token(normalized)]
    /\ steps' = steps + 1
    /\ UNCHANGED <<dbVars, now, providerVars, cache, ignored_tokens_cache, historyVars,
                   threadVars, lruVars, user_added>>

NextNormalize ==
    \/ NormalizeForTypoCompare
    \/ NormalizeToken

SpecNormalize == InitNormalize /\ [][NextNormalize]_vars

(***************************************************************************)
(* The candidate provider on its own: suggest between the words learned    *)
(***************************************************************************)
\* CandidateProvider.suggest(token, max_candidates=.., max_distance=..) on the
\* provider of the engine
Suggest(token, max_candidates, max_distance) ==
    /\ steps < MaxSteps
    /\ steps' = steps + 1
    /\ last' = [op |-> "suggest", token |-> token, max_candidates |-> max_candidates,
                max_distance |-> max_distance,
                result |-> suggest(symspell, suggestion_words, lexemes, token,
                                   max_candidates, max_distance)]
    /\ UNCHANGED <<dbVars, now, providerVars, cache, ignored_tokens_cache, historyVars,
                   threadVars, lruVars, user_added>>

NextProvider ==
    \/ \E q \in SuggestRequests : Suggest(q[1], q[2], q[3])
    \/ \E r \in ProviderWordRequests : AddWordUseCase(r[1], r[2])

SpecProvider == Init /\ [][NextProvider]_vars

(***************************************************************************)
(* Every way a classify_unknown call ends, the event-log write included    *)
(***************************************************************************)
\* classify_unknown when the INSERT of _log_event raises (sqlite3.Error: the
\* store locked, read-only or gone): nothing catches it, so the call ends in
\* the exception after everything done before the write (the in-memory
\* ignored set loaded, cache.set), and no row is stored
ClassifyUnknownLogFails(token, sentence_start) ==
    \E c \in {Call(EngineNow, token, sentence_start)} :
       /\ steps < MaxSteps
       /\ c.seen.logged
       /\ steps' = steps + 1
       /\ cache' = c.eng.world.cache
       /\ ignored_tokens_cache' = c.eng.world.ignored_tokens_cache
       /\ stale' = c.eng.stale
       /\ last' = [op |-> "classify_unknown_raised", seen |-> c.seen, returned |-> None]
       /\ UNCHANGED <<dbVars, now, providerVars, answered, ignore_log, threadVars,
                      lruVars, user_added>>

InitPipeline == InitWith(PipelineLexemes)

NextPipeline ==
    \/ \E c \in PipelineCalls : ClassifyUnknown(c[1], c[2])
    \/ \E c \in PipelineCalls : ClassifyUnknownLogFails(c[1], c[2])
    \/ \E r \in PipelineIgnoreRequests : AddIgnoredToken(r[1], r[2], r[3])
    \/ \E r \in AddWordRequests : AddWordUseCase(r[1], r[2])
    \/ InvalidateCache

SpecPipeline == InitPipeline /\ [][NextPipeline]_vars

(***************************************************************************)
(* Properties                                                              *)
(***************************************************************************)
LastIsCall == last.op = "classify_unknown"
SameKey(p, q) == p.normalized = q.normalized /\ p.sentence_start = q.sentence_start
IgnoredResult(normalized) == SkipResult(normalized, <<"gating_skip_ignored">>)
\* the token is not sentence-initial, starts with an uppercase letter and
\* contains at least one letter
CapitalizedMidSentence(token, sentence_start) ==
    /\ ~sentence_start
    /\ token # <<>>
    /\ IsUpperChar(token[1])
    /\ \E k \in 1..Len(token) : IsAlpha(token[k])
\* more than 30% of the characters of s are digits (48..57 are "0".."9")
DigitFractionOver30(s) ==
    s # <<>> /\ 10 * Cardinality({i \in 1..Len(s) : s[i] \in 48..57}) > 3 * Len(s)

\* C1: whenever the token's normalized form (trimmed, lowercased, whitespace
\* collapsed, edge punctuation stripped) is a stored surface form, classify
\* and classify_many answer "known" with match_source "exact" and the reason
\* tag "exact_match".
C1_ExactMatchPrecedence ==
    last.op \in {"classify", "classify_many"} =>
        \A k \in 1..Len(last.items) :
            last.items[k].surface_known =>
                /\ last.items[k].result.classification = "known"
                /\ last.items[k].result.match_source = "exact"
                /\ InSeq("exact_match", last.items[k].result.reason_tags)

C3_NoStaleEntryReturned ==
    LastIsCall => ~last.seen.stale_hit

\* C4: once add_user_lexeme and every classification in flight have finished,
\* the cache holds no result that was computed against the index as it was
\* before the mutation.
C4_NoResultFromOldIndex ==
    (pc["writer"] = "done" /\ \A r \in Readers : pc[r] \in {"idle", "done"})
    => \A p \in computed_from : p[2] = IndexNow

\* C5 as stated: after add_ignored_token stored a non-empty normalized form,
\* every later classify_unknown call on that form that passes the gate
\* returns "new", no suggestions, confidence 0 and "gating_skip_ignored".
C5_IgnoredOnceAdded ==
    (/\ LastIsCall
     /\ last.seen.gating.should_run
     /\ \E e \in ignore_log : e.token = last.seen.result.normalized)
    => last.seen.result = IgnoredResult(last.seen.result.normalized)

\* C5 amended: a classify_unknown call that passes the gate, made while the
\* store holds an unexpired ignore entry for the normalized form, returns
\* "new", no suggestions, confidence 0 and "gating_skip_ignored".
C5_IgnoredWhileUnexpired ==
    (LastIsCall /\ last.seen.gating.should_run /\ last.seen.live_row)
    => last.seen.result = IgnoredResult(last.seen.result.normalized)

\* a form answered "typo_likely" earlier is answered as ignored once its
\* ignore entry is stored
C5_Witness ==
    /\ LastIsCall
    /\ last.seen.gating.should_run
    /\ last.seen.live_row
    /\ last.seen.result = IgnoredResult(last.seen.result.normalized)
    /\ \E k \in 1..Len(token_events) :
          /\ token_events[k].normalized_token = last.seen.result.normalized
          /\ token_events[k].final_status = "typo_likely"

\* C6: a classify_unknown call is answered "gating_skip_ignored" only while
\* some ignore entry added for the normalized form has not expired (an entry
\* whose expiry has passed, or was in the past when added, does not suppress).
C6_SuppressedOnlyUntilExpiry ==
    (LastIsCall /\ last.seen.result.reason_tags = <<"gating_skip_ignored">>)
    => \E e \in ignore_log : /\ e.token = last.seen.result.normalized
                             /\ Unexpired(e.expires_at, last.seen.at)

\* what classify_unknown would return, on the engine and store w, for each
\* call of the model
WouldReturn(w) ==
    {<<c, classify_unknown(w, c[1], c[2]).result>> : c \in EngineCalls}
\* the engine and store after the step
WorldAfter ==
    [cache |-> cache', ignored_tokens_cache |-> ignored_tokens_cache',
     ignored_tokens |-> ignored_tokens', now |-> now', symspell |-> symspell',
     lexemes |-> lexemes', general_words |-> general_words',
     suggestion_words |-> suggestion_words', rapidfuzz |-> build'.rapidfuzz]

\* C7: add_feedback adds one row to the feedback log and leaves the cache, the
\* ignored-token set, the candidate index and the lexicon unchanged, so every
\* classification returns what it would have returned without the feedback.
C7_FeedbackIsPureAppend ==
    [][(steps' = steps + 1 /\ last'.op = "add_feedback")
       => /\ Len(typo_feedback') = Len(typo_feedback) + 1
          /\ SubSeq(typo_feedback', 1, Len(typo_feedback)) = typo_feedback
          /\ cache' = cache
          /\ ignored_tokens_cache' = ignored_tokens_cache
          /\ ignored_tokens' = ignored_tokens
          /\ symspell' = symspell
          /\ general_words' = general_words
          /\ suggestion_words' = suggestion_words
          /\ lexemes' = lexemes
          /\ surface_forms' = surface_forms
          /\ WouldReturn(WorldAfter) = WouldReturn(World)]_vars

\* feedback was recorded while the cache held a result
C7_Witness ==
    last.op = "add_feedback" /\ Len(typo_feedback) >= 1 /\ cache # <<>>

\* C8 as stated: a normalized form shorter than 3 is answered with
\* "gating_skip_short", a digit fraction above 30% with
\* "gating_skip_digit_ratio", both as "new" without suggestions at confidence 0.
C8_ShortOrDigitsSkipTag ==
    LastIsCall =>
        LET n == last.seen.result.normalized
        IN /\ Len(n) < 3 => last.seen.result = SkipResult(n, <<"gating_skip_short">>)
           /\ DigitFractionOver30(n) =>
                  last.seen.result = SkipResult(n, <<"gating_skip_digit_ratio">>)

\* C8 amended: such a token is answered "new" without suggestions at
\* confidence 0; the tag is "gating_skip_empty" for an empty normalized form,
\* "gating_skip_short" for a non-empty one shorter than 3, and
\* "gating_skip_digit_ratio" for a digit fraction above 30% when no earlier
\* skip applies (short, email, URL, path, acronym).
C8_SkipTagByPrecedence ==
    LastIsCall =>
        LET n == last.seen.result.normalized
            token == last.seen.token
            r == last.seen.result
        IN /\ (Len(n) < 3 \/ DigitFractionOver30(n)) =>
                  r.status = "new" /\ r.suggestions = <<>> /\ r.confidence = 0
           /\ n = <<>> => r.reason_tags = <<"gating_skip_empty">>
           /\ (n # <<>> /\ Len(n) < 3) => r.reason_tags = <<"gating_skip_short">>
           /\ (/\ DigitFractionOver30(n)
               /\ Len(n) >= 3
               /\ ~EMAIL_RE(n) /\ ~URL_RE(n) /\ ~PATH_RE(n)
               /\ ~(IsUpperStr(token) /\ HasAlpha(token)))
              => r.reason_tags = <<"gating_skip_digit_ratio">>

\* a digit-heavy token is answered with the digit tag although its form is
\* in the ignore table
C8_Witness ==
    /\ LastIsCall
    /\ last.seen.result.reason_tags = <<"gating_skip_digit_ratio">>
    /\ \E r \in ignored_tokens : r.token = last.seen.result.normalized

\* C9: a classify_unknown call that passes the gate (and is not answered as
\* ignored) carries "proper_noun_bias" if and only if the token is not
\* sentence-initial, starts with an uppercase letter and contains a letter.
C9_TagIffCapitalizedMidSentence ==
    (/\ LastIsCall
     /\ last.seen.gating.should_run
     /\ last.seen.result.reason_tags # <<"gating_skip_ignored">>)
    => (InSeq("proper_noun_bias", last.seen.result.reason_tags)
        <=> CapitalizedMidSentence(last.seen.token, last.seen.sentence_start))

\* C10 as stated: for a capitalized, non-sentence-initial token that passes
\* the gate, the status classify_unknown returns is "uncertain" or "new".
C10_NeverTypoLikelyUnderBias ==
    (/\ LastIsCall
     /\ last.seen.gating.should_run
     /\ CapitalizedMidSentence(last.seen.token, last.seen.sentence_start))
    => last.seen.result.status \in {"uncertain", "new"}

\* C10 amended: when the pipeline runs under proper-noun bias, decide_status
\* chooses "uncertain" or "new"; the status returned is "typo_likely" only
\* through the dictionary-miss override ("dictionary_miss_forced_typo").
C10_DecisionNeverTypoLikelyUnderBias ==
    (LastIsCall /\ last.seen.gating.proper_noun_bias /\ last.seen.decision # None)
    => /\ The(last.seen.decision) \in {"uncertain", "new"}
       /\ last.seen.result.status = "typo_likely"
              => InSeq("dictionary_miss_forced_typo", last.seen.result.reason_tags)

\* the pipeline decided "uncertain" under the bias and the override returned
\* "typo_likely"
C10_Witness ==
    /\ LastIsCall
    /\ last.seen.gating.proper_noun_bias
    /\ last.seen.decision = Some("uncertain")
    /\ last.seen.result.status = "typo_likely"

\* the call classify_unknown last completed, and the locals of its pipeline run
LastRan == LastIsCall /\ last.seen.run # None
\* no comparison form of the token is an exact dictionary word
NoFormInDictionary(token) ==
    \A form \in Elements(FormsTable[token].alternates) :
        Lower(Strip(form)) = <<>> \/ Lower(Strip(form)) \notin general_words
\* the first entries of the ranked list, as suggestions
TopOfRanked(ranked, n) ==
    [k \in 1..(IF Len(ranked) < n THEN Len(ranked) ELSE n) |->
        [value |-> ranked[k].value, score |-> ranked[k].score,
         source_flags |-> ranked[k].source_flags]]

\* C11: when classify_unknown runs the full pipeline on a token none of whose
\* comparison forms is a dictionary word, and decide_status returned "new" or
\* "uncertain", the status returned is "typo_likely", the reason tags end with
\* "dictionary_miss_forced_typo", and the confidence and the suggestions are
\* the decision's confidence and the top of the ranked list, unchanged.
C11_DictionaryMissForcesTypo ==
    (/\ LastRan
     /\ NoFormInDictionary(last.seen.token)
     /\ The(last.seen.run).decision.status \in {"new", "uncertain"})
    => /\ last.seen.result.status = "typo_likely"
       /\ last.seen.result.reason_tags # <<>>
       /\ last.seen.result.reason_tags[Len(last.seen.result.reason_tags)]
              = "dictionary_miss_forced_typo"
       /\ last.seen.result.confidence = The(last.seen.run).decision.confidence
       /\ last.seen.result.suggestions = TopOfRanked(The(last.seen.run).ranked, 3)

\* the pipeline ran with candidates, decided "uncertain", and the call
\* returned "typo_likely" with suggestions
C11_Witness ==
    /\ LastRan
    /\ NoFormInDictionary(last.seen.token)
    /\ The(last.seen.run).decision.status = "uncertain"
    /\ last.seen.result.status = "typo_likely"
    /\ last.seen.result.suggestions # <<>>

\* C12 as stated: whenever the candidate search returns no candidates, the
\* classification is "new" with confidence 0 and the reason
\* "weak_candidate_evidence".
C12_NoCandidatesIsNew ==
    (LastRan /\ The(last.seen.run).candidates = <<>>)
    => /\ last.seen.result.status = "new"
       /\ last.seen.result.confidence = 0
       /\ InSeq("weak_candidate_evidence", last.seen.result.reason_tags)

\* C12 amended: when the candidate search returns no candidates the call
\* completes, decide_status answers "new" with confidence 0 and the reason
\* "weak_candidate_evidence", and classify_unknown returns confidence 0, no
\* suggestions and that reason, with the status "typo_likely" of the
\* dictionary-miss override and its tag "dictionary_miss_forced_typo".
C12_NoCandidatesDecidedNew ==
    (LastRan /\ The(last.seen.run).candidates = <<>>)
    => /\ The(last.seen.run).decision
              = DecisionResult("new", 0, <<"weak_candidate_evidence">>)
       /\ last.seen.result.confidence = 0
       /\ last.seen.result.suggestions = <<>>
       /\ last.seen.result.status = "typo_likely"
       /\ last.seen.result.reason_tags
              = last.seen.gating.reason_tags
                   \o <<"weak_candidate_evidence", "dictionary_miss_forced_typo">>

\* "kat" has no candidate within its distance bound
C12_Witness ==
    /\ LastRan
    /\ last.seen.token = w_kat
    /\ The(last.seen.run).candidates = <<>>
    /\ last.seen.result.suggestions = <<>>

\* the lists that hold the items of seq in another order
Permuted(seq) ==
    {[k \in 1..Len(seq) |-> seq[f[k]]] :
        f \in {g \in [1..Len(seq) -> 1..Len(seq)] :
                  \A i, j \in 1..Len(seq) : g[i] = g[j] => i = j}}
\* x comes strictly before y by (score descending, distance ascending, value
\* ascending)
StrictlyRankedAhead(x, y) ==
    \/ x.score > y.score
    \/ x.score = y.score /\ x.distance < y.distance
    \/ x.score = y.score /\ x.distance = y.distance /\ StrLess(x.value, y.value)

\* C13: every result classify_unknown returns or keeps in the cache carries at
\* most 3 suggestions; a fresh result carries exactly the first entries of the
\* ranked list; the ranked list is strictly ordered by (score descending,
\* distance ascending, value ascending); and ranking the same candidates for
\* the same query, handed over in any order, yields that same list.
C13_TopThreeInRankOrder ==
    /\ \A k \in 1..Len(cache) : Len(cache[k].value.suggestions) <= 3
    /\ LastIsCall => Len(last.seen.result.suggestions) <= 3
    /\ LastRan =>
          /\ last.seen.result.suggestions = TopOfRanked(The(last.seen.run).ranked, 3)
          /\ \A i, j \in 1..Len(The(last.seen.run).ranked) :
                 i < j => StrictlyRankedAhead(The(last.seen.run).ranked[i],
                                              The(last.seen.run).ranked[j])
          /\ \A p \in Permuted(The(last.seen.run).candidates) :
                 rank_candidates(build.rapidfuzz, last.seen.result.normalized, p, lexemes)
                    = The(last.seen.run).ranked

\* four candidates were ranked and the first three of them returned
C13_Witness ==
    /\ LastRan
    /\ Len(The(last.seen.run).ranked) >= 4
    /\ Len(last.seen.result.suggestions) = 3

LastIsSuggest == last.op = "suggest"
\* every candidate some alternate form of the token finds (the provider is as
\* the call left it: suggest changes nothing)
Occurrences(token, max_candidates, max_distance) ==
    UNION {Elements(_suggest_one(symspell, suggestion_words, lexemes, form,
                                 max_candidates, max_distance)) :
              form \in Elements(FormsTable[token].alternates)}
\* of each value found, the occurrences of lowest distance
BestOccurrences(found) ==
    {c \in found : \A d \in found : d.value = c.value => c.distance <= d.distance}
\* x comes strictly before y by (distance ascending, frequency descending,
\* value ascending)
StrictlyAhead(x, y) ==
    \/ x.distance < y.distance
    \/ x.distance = y.distance /\ x.frequency > y.frequency
    \/ x.distance = y.distance /\ x.frequency = y.frequency /\ StrLess(x.value, y.value)

LearnedLemmas == {Lower(Strip(l)) : l \in user_added} \ {<<>>}
\* some alternate form of the token is within max_distance of the word
WithinDistance(token, word, max_distance) ==
    \E form \in Elements(FormsTable[token].alternates) :
        LevTable[<<form, word>>] <= max_distance
\* a candidate that comes from the static word list alone
DictionaryOnly(candidate) ==
    /\ candidate.value \in suggestion_words
    /\ candidate.value \notin LearnedLemmas
    /\ candidate.value \notin _load_user_lemmas(lexemes)

\* C15: after add_user_lexeme(lemma), every later suggest call for a query
\* within max_distance of the lemma returns the lemma, with a frequency above
\* the weight 10 of a static dictionary entry and ahead of every
\* dictionary-only candidate of equal distance, with the accelerated index and
\* with the brute-force fallback alike.  (Checked for the calls whose result
\* is shorter than max_candidates, so that no lemma is missing for the limit.)
C15_LearnedLemmaSuggestedFirst ==
    (LastIsSuggest /\ Len(last.result) < last.max_candidates) =>
        \A lemma \in LearnedLemmas :
            WithinDistance(last.token, lemma, last.max_distance) =>
                \E k \in 1..Len(last.result) :
                    /\ last.result[k].value = lemma
                    /\ last.result[k].frequency > 10
                    /\ \A j \in 1..Len(last.result) :
                           (/\ DictionaryOnly(last.result[j])
                            /\ last.result[j].distance = last.result[k].distance) => k < j

\* where a key stands in the order of last touch
TouchRank(key) == CHOOSE n \in 1..Len(touched) : touched[n] = key

\* C16: after any sequence of get, set and clear the cache holds at most
\* max_size entries, one per key: the most recently touched keys (touched by
\* a set or by a get that returned a value), each with the value last set for
\* it; the entry a set removes is the least recently touched one; and a get on
\* a present key returns the value last set for it, a get on an absent key
\* nothing.
C16_BoundedLeastRecentlyUsed ==
    /\ Len(lru) <= LruMaxSize
    /\ \A i, j \in 1..Len(lru) : lru[i].key = lru[j].key => i = j
    /\ CacheKeys(lru) = {touched[n] : n \in {m \in 1..Len(touched) :
                                                m > Len(touched) - LruMaxSize}}
    /\ \A i \in 1..Len(lru) : lru[i].value = written[lru[i].key]
    /\ last.op = "cache_set" =>
          /\ Cardinality(last.evicted) <= 1
          /\ \A e \in last.evicted, k \in CacheKeys(lru) : TouchRank(e) < TouchRank(k)
    /\ last.op = "cache_get" =>
          IF last.present THEN last.returned = Some(written[last.key])
                          ELSE last.returned = None

\* a set into the full cache removed an entry
C16_Witness ==
    /\ last.op = "cache_set"
    /\ last.evicted # {}
    /\ Len(lru) = LruMaxSize
    /\ Len(touched) > LruMaxSize

\* C17: classifying an empty or whitespace-only token through
\* LemmaAwareClassifier.classify (or classify_many) completes and answers
\* "new" with at least one reason tag.
C17_BlankTokenIsNewWithReason ==
    last.op \in {"classify", "classify_many"} =>
        \A k \in 1..Len(last.items) :
            Strip(last.items[k].token) = <<>> =>
                /\ last.items[k].result.classification = "new"
                /\ last.items[k].result.reason_tags # <<>>

\* C18: when the event-log write of a classify_unknown call fails, the caller
\* still receives the result it would have received had the write succeeded.
C18_LogFailureKeepsResult ==
    last.op = "classify_unknown_raised" => last.returned = Some(last.seen.result)

\* C19: a classify_unknown call that completes after a gate skip, an
\* ignored-token skip, a dictionary-exact skip or a pipeline run appends
\* exactly one row to the event log (raw token, normalized token, final
\* status, top suggestion if any, confidence), and a call answered from the
\* cache appends none; the rows already logged stay as they are.
C19_OneEventPerDecision ==
    [][(steps' = steps + 1 /\ last'.op = "classify_unknown")
       => token_events' =
             IF last'.seen.hit
             THEN token_events
             ELSE Append(token_events,
                         [raw_token |-> last'.seen.token,
                          normalized_token |-> last'.seen.result.normalized,
                          final_status |-> last'.seen.result.status,
                          top_suggestion |->
                              IF last'.seen.result.suggestions # <<>>
                              THEN Some(last'.seen.result.suggestions[1].value)
                              ELSE None,
                          confidence |-> last'.seen.result.confidence])]_vars

\* a skip and a pipeline run were logged, and the third call, answered from
\* the cache, logged nothing
C19_Witness ==
    /\ LastIsCall
    /\ last.seen.hit
    /\ steps = 3
    /\ Len(token_events) = 2
    /\ \E i, j \in 1..Len(token_events) :
          /\ token_events[i].final_status = "new"
          /\ token_events[j].final_status = "typo_likely"

\* C20: classify_many returns one result per input token, in input order;
\* the typo engine is asked about the token at index 0 with sentence_start
\* true and about every other token of the batch with sentence_start false,
\* and the single-token classify always asks with sentence_start false.
C20_BatchOrderAndSentenceStart ==
    last.op \in {"classify", "classify_many"}
    => /\ Len(last.items) = Len(last.tokens)
       /\ \A k \in 1..Len(last.items) :
             /\ last.items[k].result.surface_token = last.tokens[k]
             /\ last.items[k].seen # None
                => /\ The(last.items[k].seen).token = last.tokens[k]
                   /\ The(last.items[k].seen).sentence_start
                         = (last.op = "classify_many" /\ k = 1)

\* a batch of two tokens, both of which went to the typo engine: the first as
\* sentence-initial, the second not
C20_Witness ==
    /\ last.op = "classify_many"
    /\ Len(last.items) = 2
    /\ last.items[1].seen # None
    /\ last.items[2].seen # None
    /\ The(last.items[1].seen).sentence_start
    /\ ~The(last.items[2].seen).sentence_start
    /\ The(last.items[1].seen).gating.should_run
    /\ The(last.items[2].seen).gating.should_run

\* the last step was a classify or classify_many call
LastIsClassify == last.op \in {"classify", "classify_many"}

\* the token has neither a surface-form row nor a lemma row of its own
NoExactMatch(token) ==
    /\ normalize_token(token) # <<>>
    /\ \A sf \in surface_forms : sf[1] # normalize_token(token)
    /\ normalize_token(token) \notin lexemes

\* C21: a token with no exact surface-form or lemma match, one of whose
\* lemmatizer candidates is a stored lemma, is classified "variation" with
\* match_source "lemma" and the reason "lemma_match"; matched_lemma is a
\* stored lemma taken from the candidate list, and lemma_candidate is the
\* first candidate of the lemmatizer, whether or not it is the matched one.
C21_LemmaVariation ==
    LastIsClassify
    => \A k \in 1..Len(last.items) :
         \A cands \in {_lemma_candidates_for_token(last.answer)} :
            (/\ NoExactMatch(last.items[k].token)
             /\ \E i \in 1..Len(cands) : cands[i] \in lexemes)
            => /\ last.items[k].result.classification = "variation"
               /\ last.items[k].result.match_source = "lemma"
               /\ last.items[k].result.reason_tags = <<"lemma_match">>
               /\ last.items[k].result.matched_lemma # None
               /\ The(last.items[k].result.matched_lemma) \in lexemes
               /\ InSeq(The(last.items[k].result.matched_lemma), cands)
               /\ last.items[k].result.lemma_candidate = Some(cands[1])

\* a variation whose first lemmatizer candidate is not the matched lemma
C21_Witness ==
    /\ LastIsClassify
    /\ \E k \in 1..Len(last.items) :
          /\ NoExactMatch(last.items[k].token)
          /\ last.items[k].result.classification = "variation"
          /\ last.items[k].result.lemma_candidate # last.items[k].result.matched_lemma
          /\ The(last.items[k].result.matched_lemma) \in lexemes

\* C22: when request threads call get, set and clear of the cache at the
\* same time, no call raises, the cache holds at most max_size entries
\* whenever no call is under way, and a get returns nothing or a value that
\* a set was called with for that key.
C22_CacheSafeUnderRaces ==
    /\ \A t \in Readers : pc[t] # "failed"
    /\ (\A t \in Readers : pc[t] = "idle") => Len(lru) <= LruMaxSize
    /\ (last.op = "race_get" /\ last.returned # None)
          => <<last.key, The(last.returned)>> \in were_set

\* C23: normalizing a normalized form gives the same form again, for the
\* typo normalization and for normalize_token; the alternates of
\* comparison_forms are non-empty exactly when the normalized form is, and
\* then they contain it.
C23_NormalizationIdempotent ==
    /\ last.op \in {"normalize_for_typo_compare", "normalize_token"}
          => last.again = last.normalized
    /\ last.op = "normalize_for_typo_compare"
          => /\ last.forms.normalized = last.normalized
             /\ (last.forms.alternates # <<>>) <=> (last.normalized # <<>>)
             /\ last.normalized # <<>> => InSeq(last.normalized, last.forms.alternates)

\* a token that normalization changes (case, edge punctuation) and whose
\* normalized form has a diacritic alternate
C23_Witness ==
    /\ last.op = "normalize_for_typo_compare"
    /\ Len(last.token) = MaxTokenLen
    /\ Len(last.normalized) = 2
    /\ \E i \in 1..Len(last.token) : IsUpperChar(last.token[i])
    /\ Len(last.forms.alternates) = 2

\* C24: a classify or classify_many call never hands a token it resolves as
\* "known" or "variation" to the typo engine; the engine is asked only about
\* a token with no exact match and no stored lemma among its candidates; and
\* a call none of whose tokens went to the engine leaves the cache, the
\* event log, the ignore set and the candidate index as they were.
C24_KnownAndVariationSkipEngine ==
    [][(steps' = steps + 1 /\ last'.op \in {"classify", "classify_many"})
       => /\ \A k \in 1..Len(last'.items) :
               /\ last'.items[k].result.classification \in {"known", "variation"}
                     => last'.items[k].seen = None
               /\ last'.items[k].seen # None
                     => /\ NoExactMatch(last'.items[k].token)
                        /\ \A cands \in {_lemma_candidates_for_token(last'.answer)} :
                              \A i \in 1..Len(cands) : cands[i] \notin lexemes
          /\ (\A k \in 1..Len(last'.items) : last'.items[k].seen = None)
               => UNCHANGED <<cache, token_events, ignored_tokens_cache, ignored_tokens,
                              providerVars>>]_vars

\* the engine has answered before, and the last call, whose tokens were all
\* known or variations, went past it
C24_Witness ==
    /\ LastIsClassify
    /\ cache # <<>>
    /\ token_events # <<>>
    /\ \A k \in 1..Len(last.items) :
          /\ last.items[k].seen = None
          /\ last.items[k].result.classification \in {"known", "variation"}
    /\ \E k \in 1..Len(last.items) : last.items[k].result.classification = "known"
    /\ \E k \in 1..Len(last.items) : last.items[k].result.classification = "variation"

\* the edit distance of the backend in use: SymSpell's when the accelerated
\* index was built, _levenshtein of the fallback scan otherwise
BackendDistance(a, b) ==
    IF symspell # None THEN symspell_distance(a, b) ELSE _levenshtein(a, b)

IsPrefix(head, seq) ==
    /\ Len(head) <= Len(seq)
    /\ \A k \in 1..Len(head) : seq[k] = head[k]

\* C26: the reason tags of a classify_unknown result that was not taken from
\* the cache begin with the tags of the gate; after a pipeline run they are
\* the gate's tags, then the decision's tags, then the tags of the dictionary
\* override; and no tag occurs twice.
C26_ReasonTagsAccumulate ==
    (LastIsCall /\ ~last.seen.hit)
    => /\ IsPrefix(last.seen.gating.reason_tags, last.seen.result.reason_tags)
       /\ LastRan
            => /\ IsPrefix(last.seen.gating.reason_tags
                              \o The(last.seen.run).decision.reason_tags,
                           last.seen.result.reason_tags)
               /\ \A k \in 1..Len(last.seen.result.reason_tags) :
                     k > Len(last.seen.gating.reason_tags)
                           + Len(The(last.seen.run).decision.reason_tags)
                     => last.seen.result.reason_tags[k]
                           \in {"uncertain_resolved_dictionary_hit",
                                "dictionary_miss_forced_typo"}
       /\ \A i, j \in 1..Len(last.seen.result.reason_tags) :
             i < j => last.seen.result.reason_tags[i] # last.seen.result.reason_tags[j]

\* C27: classify_unknown never returns "uncertain": a call that passes the
\* gate, whose token is not in the ignore set and has no comparison form in
\* the dictionary, returns "typo_likely", every other call returns "new", and
\* no result carries the tag "uncertain_resolved_dictionary_hit".
C27_NeverUncertain ==
    LastIsCall
    => /\ last.seen.result.status # "uncertain"
       /\ last.seen.result.status
             = IF /\ last.seen.gating.should_run
                  /\ last.seen.result.normalized \notin The(ignored_tokens_cache)
                  /\ NoFormInDictionary(last.seen.token)
               THEN "typo_likely" ELSE "new"
       /\ \A k \in 1..Len(last.seen.result.reason_tags) :
             last.seen.result.reason_tags[k] # "uncertain_resolved_dictionary_hit"

\* decide_status chose "uncertain" and the call returned "typo_likely", after
\* calls that returned "new" for a gate skip and for a dictionary word
C27_Witness ==
    /\ LastRan
    /\ The(last.seen.run).decision.status = "uncertain"
    /\ last.seen.result.status = "typo_likely"
    /\ \E i, j \in 1..Len(token_events) :
          /\ token_events[i].final_status = "new"
          /\ token_events[i].normalized_token = w_baer
          /\ token_events[j].final_status = "new"
          /\ token_events[j].normalized_token = t_ab

\* what an engine in the state reached, but with an empty cache, returns for
\* the call
UncachedResult(token, sentence_start) ==
    classify_unknown([World EXCEPT !.cache = <<>>], token, sentence_start).result

\* C28: a classify_unknown call answered from the cache returns the status,
\* the suggestions, the confidence and the reason tags that an engine without
\* a cache computes for the same raw token and sentence_start flag in the
\* state the call was made in.
C28_CacheIsTransparent ==
    (LastIsCall /\ last.seen.hit)
    => \A fresh \in {UncachedResult(last.seen.token, last.seen.sentence_start)} :
          /\ last.seen.result.status = fresh.status
          /\ last.seen.result.suggestions = fresh.suggestions
          /\ last.seen.result.confidence = fresh.confidence
          /\ last.seen.result.reason_tags = fresh.reason_tags

\* C29: once the in-memory ignored-token set has been loaded it is the set of
\* the unexpired rows of the ignored_tokens table, database resets included
\* (stated for the runs in which every ignore was stored without an expiry,
\* so that no row lapses): a token ignored before a reset is not in the set
\* after it.
C29_IgnoreSetFollowsReset ==
    (/\ ignored_tokens_cache # None
     /\ \A e \in ignore_log : e.expires_at = None)
    => The(ignored_tokens_cache) = _ignored_tokens_from_db(ignored_tokens, now)

\* C30: when add_ignored_token runs while a classify_unknown call loads the
\* in-memory ignored-token set, then once every call has returned the loaded
\* set holds the normalized form of every token ignored, and a
\* classification of a token begun after its add_ignored_token returned is
\* answered "gating_skip_ignored".
C30_IgnoreNotLostToLazyLoad ==
    /\ ((\A t \in Threads : pc[t] = "idle") /\ ignored_tokens_cache # None)
          => \A e \in ignore_log : e.token \in The(ignored_tokens_cache)
    /\ (/\ last.op = "classify_unknown"
        /\ last.seen.gating.should_run
        /\ last.seen.result.normalized \in last.settled)
          => last.seen.result.reason_tags = <<"gating_skip_ignored">>

====
